---- MODULE Spec2Model ----
(***************************************************************************)
(* State-machine model of the data-analysis agent: the shared dataset      *)
(* (src/tools/__init__.py, src/tools/_shared.py), the thirteen tools       *)
(* (src/tools/*.py), the schema summary (src/data_loader.py) and the       *)
(* orchestration graph (src/agent.py).                                     *)
(*                                                                         *)
(* A text is a sequence of string tokens (its whitespace-separated words); *)
(* a table is a record of its ordered column names, their dtypes and its   *)
(* rows; tables live in a heap, because pandas DataFrames are mutable      *)
(* objects shared by reference.                                            *)
(***************************************************************************)
EXTENDS Integers, Sequences, FiniteSets, TLC

VARIABLES
    USE_DATABASE,   \* the mode switch, read once from the environment
    heap,           \* table id -> table content, or None when not allocated
    _df,            \* src/tools/__init__.py: the shared dataframe reference
    _cached_df,     \* src/tools/_shared.py: the database-mode cache
    lastSet,        \* history: the id last passed to set_dataframe
    resolved,       \* history: id -> content when get_dataframe first returned it
    fetches,        \* history: full-table queries sent by get_dataframe
    okFetches,      \* history: those of them that returned a table
    lastCall,       \* observation: the last operation (a tool invocation and its
                    \* outcome, or a set_dataframe call)
    _schema_cache,  \* src/data_loader.py: the cached schema summary
    schemaCalls,    \* history: number of get_schema_summary calls made
    schemaComputed, \* history: number of times a summary was computed
    lastSchema,     \* observation: the last get_schema_summary call
    firstSummary,   \* history: the first summary get_schema_summary returned
    tpc,            \* concurrent get_dataframe: each thread's position
    tlocal,         \* concurrent get_dataframe: each thread's fetched table
    tret,           \* concurrent get_dataframe: each thread's return value
    cfetches,       \* concurrent get_dataframe: full-table fetches that returned a table
    cfails,         \* concurrent get_dataframe: full-table fetches that raised
    ccache,         \* concurrent get_dataframe: the shared _cached_df
    node,           \* orchestration graph: the node about to run
    messages,       \* orchestration graph: the turn's message history
    modelCalls,     \* history: model calls made in this turn
    turns,          \* history: turns completed
    checkpoints,    \* api.py: the MemorySaver of agent, thread id -> messages
    cliCheckpoints, \* main.py: the MemorySaver of app, thread id -> messages
    cliThread,      \* main.py: the local thread_id of main()
    nextUuid,       \* the ids uuid.uuid4() has not returned yet start here
    requests,       \* history: requests and CLI inputs handled
    lastReq,        \* observation: the last request or CLI input handled
    probe,          \* history: an earlier tool invocation, kept for comparison
    dataFiles,      \* startup: the number of *.parquet files load_dataset found
    storeUp,        \* startup: whether the database answered load_dataset
    phase,          \* startup: how far the process has come
    loadedFile,     \* startup: the index of the file that was read, 0 if none
    served,         \* history: chat turns served
    invoked,        \* history: tool invocations made in served turns
    applied,        \* observation: a function applied to an input, and its output
    pipeline_data,  \* database.py: the rows committed to the table, as slices of the file
    created,        \* database.py: whether the table exists
    live,           \* database.py: the connections checked out of engine's pool
    leaked,         \* history: those of them that no caller will close
    db,             \* database.py: the operation that is running, and its position
    lastOp,         \* observation: the last database operation that ended
    rolled_back     \* history: the chunk number of the last COPY chunk rolled back

toolVars == <<USE_DATABASE, heap, _df, _cached_df, lastSet, resolved, fetches,
              okFetches, lastCall>>
schemaVars == <<_schema_cache, schemaCalls, schemaComputed, lastSchema, firstSummary>>
concVars == <<tpc, tlocal, tret, cfetches, cfails, ccache>>
agentVars == <<node, messages, modelCalls, turns>>
threadVars == <<checkpoints, cliCheckpoints, cliThread, nextUuid, requests, lastReq>>
coreVars == <<toolVars, schemaVars, concVars, agentVars>>
repeatVars == <<probe>>
startVars == <<dataFiles, storeUp, phase, loadedFile, served, invoked>>
functionVars == <<applied>>
storeVars == <<pipeline_data, created, live, leaked, db, lastOp, rolled_back>>
extVars == <<threadVars, repeatVars, startVars, functionVars, storeVars>>
exceptThreads == <<coreVars, repeatVars, startVars, functionVars, storeVars>>
exceptRepeat == <<coreVars, threadVars, startVars, functionVars, storeVars>>
exceptStart == <<coreVars, threadVars, repeatVars, functionVars, storeVars>>
exceptFunctions == <<coreVars, threadVars, repeatVars, startVars, storeVars>>
exceptStore == <<coreVars, threadVars, repeatVars, startVars, functionVars>>
vars == <<coreVars, extVars>>

None == "None"

----------------------------------------------------------------------------
(* Texts *)

Range(s) == {s[i] : i \in 1..Len(s)}

\* str.startswith on token sequences
StartsWith(text, prefix) ==
    /\ Len(text) >= Len(prefix)
    /\ \A i \in 1..Len(prefix) : text[i] = prefix[i]

\* the sum of f over the set S of integers, a large set by halves
RECURSIVE SumOver(_, _)
SumOver(f, S) ==
    IF S = {} THEN 0
    ELSE IF Cardinality(S) > 16
    THEN LET x == CHOOSE x \in S : 2 * Cardinality({y \in S : y < x}) \in {Cardinality(S), Cardinality(S) - 1}
         IN SumOver(f, {y \in S : y < x}) + SumOver(f, {y \in S : y >= x})
    ELSE LET x == CHOOSE x \in S : TRUE IN f[x] + SumOver(f, S \ {x})

Abs(x) == IF x < 0 THEN 0 - x ELSE x
Min(a, b) == IF a < b THEN a ELSE b

\* n copies of a token
Rep(tok, n) == [i \in 1..n |-> tok]

\* the concatenation of the sequences of a sequence
Flatten(seqs) ==
    IF seqs = <<>> THEN <<>>
    ELSE LET L[k \in 1..Len(seqs)] == (IF k = 1 THEN <<>> ELSE L[k - 1]) \o seqs[k]
         IN L[Len(seqs)]

\* .head(n)
HeadOf(seq, n) == SubSeq(seq, 1, Min(n, Len(seq)))

\* f"{n:,}" of a natural number
RECURSIVE Commas(_)
Commas(n) ==
    IF n < 1000 THEN ToString(n)
    ELSE Commas(n \div 1000) \o ","
         \o (IF n % 1000 < 10 THEN "00" ELSE IF n % 1000 < 100 THEN "0" ELSE "")
         \o ToString(n % 1000)

\* f"{val:,.2f}" of a fraction: the hundredths rounded, an exact half to
\* the even digit
FmtValue(val) ==
    IF val.den = 0 THEN "nan"
    ELSE LET neg == val.num < 0
             num == Abs(val.num)
             whole == num \div val.den
             rest == (num % val.den) * 100
             q == rest \div val.den
             r2 == 2 * (rest % val.den)
             up == r2 > val.den \/ (r2 = val.den /\ q % 2 = 1)
             hundredths == IF up THEN q + 1 ELSE q
             carried == IF hundredths = 100 THEN whole + 1 ELSE whole
             digits == hundredths % 100
         IN (IF neg /\ (carried > 0 \/ digits > 0) THEN "-" ELSE "")
            \o Commas(carried) \o "."
            \o (IF digits < 10 THEN "0" ELSE "") \o ToString(digits)

----------------------------------------------------------------------------
(* Tables *)

\* a cell is <<>> (null) or <<v>>; quantities are written in hundreds
NullCell == <<>>

Table(columns, dtype, rows) == [columns |-> columns, dtype |-> dtype, rows |-> rows]

\* tests/conftest.py sample_df, cut to three columns and two rows
SampleDf ==
    Table(<<"pipeline_name", "total_scheduled_quantity", "gas_day">>,
          [c \in {"pipeline_name", "total_scheduled_quantity", "gas_day"} |->
              IF c = "pipeline_name" THEN "obj"
              ELSE IF c = "gas_day" THEN "dt" ELSE "num"],
          << [pipeline_name |-> <<"A">>, total_scheduled_quantity |-> <<1>>,
              gas_day |-> <<1>>],
             [pipeline_name |-> <<"B">>, total_scheduled_quantity |-> NullCell,
              gas_day |-> <<2>>] >>)

\* a second table: two numeric columns and a categorical one; in database
\* mode, the schema sample load_dataset passes to set_dataframe
OtherDf ==
    Table(<<"pipeline_name", "total_scheduled_quantity", "design_capacity">>,
          [c \in {"pipeline_name", "total_scheduled_quantity", "design_capacity"} |->
              IF c = "pipeline_name" THEN "obj" ELSE "num"],
          << [pipeline_name |-> <<"A">>, total_scheduled_quantity |-> <<1>>,
              design_capacity |-> <<5>>] >>)

\* the pipeline_data table held by the database
DbTable ==
    Table(<<"pipeline_name", "total_scheduled_quantity", "design_capacity">>,
          [c \in {"pipeline_name", "total_scheduled_quantity", "design_capacity"} |->
              IF c = "pipeline_name" THEN "obj" ELSE "num"],
          << [pipeline_name |-> <<"A">>, total_scheduled_quantity |-> <<1>>,
              design_capacity |-> <<5>>],
             [pipeline_name |-> <<"B">>, total_scheduled_quantity |-> <<2>>,
              design_capacity |-> <<4>>],
             [pipeline_name |-> <<"C">>, total_scheduled_quantity |-> <<3>>,
              design_capacity |-> <<6>>] >>)

\* the content of a heap cell that holds no table yet
NoTable == Table(<<>>, <<>>, <<>>)

Cols(t) == Range(t.columns)
NumericCols(t) == {c \in Cols(t) : t.dtype[c] = "num"}

\* heap ids: two tables a caller may pass to set_dataframe, and the table
\* get_dataframe_from_db materialises
FileId == "file"
SampleId == "sample"
DbId == "db"
TableIds == {FileId, SampleId, DbId}

----------------------------------------------------------------------------
(* Dataset access: src/tools/__init__.py and src/tools/_shared.py *)

\* bound on the full-table queries that may fail (keeps the counters finite)
MaxFetches == 2

\* database.get_dataframe_from_db(): SELECT * FROM pipeline_data read into a
\* new DataFrame; raises when the database does not answer
GetDataframeFromDb(dbok) ==
    IF dbok THEN [raised |-> "", table |-> DbTable]
    ELSE [raised |-> "OperationalError", table |-> NoTable]

\* a variant of get_dataframe() that keeps no cache: every call in database
\* mode asks the database again
GetDataframeNoCache(dbok) ==
    IF USE_DATABASE
    THEN LET r == GetDataframeFromDb(dbok) IN
         IF r.raised # ""
         THEN [ret |-> None, raised |-> r.raised, cache |-> _cached_df,
               heap |-> heap, queried |-> TRUE]
         ELSE [ret |-> DbId, raised |-> "", cache |-> _cached_df,
               heap |-> [heap EXCEPT ![DbId] = r.table], queried |-> TRUE]
    ELSE [ret |-> _df, raised |-> "", cache |-> _cached_df,
          heap |-> heap, queried |-> FALSE]

\* get_dataframe(): the value returned, the exception raised (if any), and the
\* cache and heap it leaves behind
GetDataframe(dbok) ==
    IF USE_DATABASE
    THEN IF _cached_df # None
         THEN [ret |-> _cached_df, raised |-> "", cache |-> _cached_df,
               heap |-> heap, queried |-> FALSE]
         ELSE LET r == GetDataframeFromDb(dbok) IN
              IF r.raised # ""
              THEN [ret |-> None, raised |-> r.raised, cache |-> _cached_df,
                    heap |-> heap, queried |-> TRUE]
              ELSE [ret |-> DbId, raised |-> "", cache |-> DbId,
                    heap |-> [heap EXCEPT ![DbId] = r.table], queried |-> TRUE]
    ELSE [ret |-> _df, raised |-> "", cache |-> _cached_df,
          heap |-> heap, queried |-> FALSE]

\* the tool-independent part of an outcome
\* (text returned, exception propagated, whether the analysis proper ran, the
\* heap left behind, the queries sent to the database, the exception raised
\* inside the tool)
Outcome(text, raised, ran, h) ==
    [text |-> text, raised |-> raised, ran |-> ran, heap |-> h, sent |-> <<>>,
     exc |-> raised]

NotLoaded(g) == Outcome(<<"Error:", "DataFrame", "not", "loaded">>, "", FALSE, g.heap)
ColumnNotFound(g, c) ==
    Outcome(<<"Error:", "Column", c, "not", "found">>, "", FALSE, g.heap)
ColumnNotNumeric(g, c) ==
    Outcome(<<"Error:", "Column", c, "is", "not", "numeric">>, "", FALSE, g.heap)
\* except Exception as e: return f"Error: {e}"
Caught(g, e) == [Outcome(<<"Error:", e>>, "", TRUE, g.heap) EXCEPT !.exc = e]
Report(g, text) == Outcome(text, "", TRUE, g.heap)
\* get_dataframe() is called before the tool's try block
Propagated(g) == Outcome(<<>>, g.raised, FALSE, g.heap)

\* first element of a sequence that is in no set S, or None
RECURSIVE FirstNotIn(_, _)
FirstNotIn(s, S) ==
    IF s = <<>> THEN None
    ELSE IF Head(s) \notin S THEN Head(s) ELSE FirstNotIn(Tail(s), S)

RECURSIVE Filter(_, _)
Filter(s, S) ==
    IF s = <<>> THEN <<>>
    ELSE (IF Head(s) \in S THEN <<Head(s)>> ELSE <<>>) \o Filter(Tail(s), S)

\* the DataFrame a tool works on, once get_dataframe() returned one
D(g) == g.heap[g.ret]

\* the body of a tool's try block after validation: a library error inside it
\* is an Exception, caught and returned as text
Analysis(g, exc, text) == IF exc # "" THEN Caught(g, exc) ELSE Report(g, text)

----------------------------------------------------------------------------
(* The dataset tools: src/tools/*.py.  Each operator gives the outcome of one
   invocation from g = GetDataframe(..), the arguments, and exc, the exception
   (or "") a library call raises during the analysis proper. *)

get_column_stats(g, column, exc) ==
    IF g.raised # "" THEN Propagated(g)
    ELSE IF g.ret = None THEN NotLoaded(g)
    ELSE IF column \notin Cols(D(g)) THEN ColumnNotFound(g, column)
    ELSE Analysis(g, exc, <<"Statistics", "for", column>>)

\* a float is kept in ten-thousandths, the precision of the report's ".4f"
Scale == 10000

\* the integer square root, by bisection
RECURSIVE ISqrtIn(_, _, _)
ISqrtIn(n, lo, hi) ==
    IF lo >= hi THEN lo
    ELSE LET mid == (lo + hi + 1) \div 2 IN
         IF mid * mid <= n THEN ISqrtIn(n, mid, hi) ELSE ISqrtIn(n, lo, mid - 1)
ISqrt(n) == ISqrtIn(n, 0, IF n < 46340 THEN n ELSE 46340)

\* DataFrame.corr(method="pearson") for two columns, over the rows where both
\* have a value: NaN (a null cell) when fewer than two such rows remain or a
\* column is constant on them.  The quotient is exact when the product of the
\* variances is a square.
Pearson(rows, a, b) ==
    LET idx == {i \in 1..Len(rows) : rows[i][a] # NullCell /\ rows[i][b] # NullCell}
        n == Cardinality(idx)
        sx == SumOver([i \in idx |-> rows[i][a][1]], idx)
        sy == SumOver([i \in idx |-> rows[i][b][1]], idx)
        sxy == SumOver([i \in idx |-> rows[i][a][1] * rows[i][b][1]], idx)
        sxx == SumOver([i \in idx |-> rows[i][a][1] * rows[i][a][1]], idx)
        syy == SumOver([i \in idx |-> rows[i][b][1] * rows[i][b][1]], idx)
        cov == n * sxy - sx * sy
        vx == n * sxx - sx * sx
        vy == n * syy - sy * sy
        root == ISqrt(vx * vy)
    IN IF n < 2 \/ vx = 0 \/ vy = 0 THEN NullCell
       ELSE IF cov < 0 THEN <<0 - ((Scale * (0 - cov)) \div root)>>
       ELSE <<(Scale * cov) \div root>>

\* f"{val:.4f}"
Fmt4(val) ==
    LET d == Abs(val) % Scale
        digits == IF d < 10 THEN "000" \o ToString(d)
                  ELSE IF d < 100 THEN "00" \o ToString(d)
                  ELSE IF d < 1000 THEN "0" \o ToString(d)
                  ELSE ToString(d)
    IN (IF val < 0 THEN "-" ELSE "") \o ToString(Abs(val) \div Scale) \o "." \o digits

\* the loop over enumerate(columns) twice: the pairs i < j, in that order,
\* whose correlation is not NaN
RECURSIVE Correlations(_, _, _, _)
Correlations(rows, columns, i, j) ==
    IF i > Len(columns) THEN <<>>
    ELSE IF j > Len(columns) THEN Correlations(rows, columns, i + 1, i + 2)
    ELSE LET val == Pearson(rows, columns[i], columns[j]) IN
         (IF val # NullCell
          THEN << [col1 |-> columns[i], col2 |-> columns[j], val |-> val[1]] >>
          ELSE <<>>)
         \o Correlations(rows, columns, i, j + 1)

\* a variant of the sort key: the correlation itself
SortKeyValue(x) == x.val

\* key=lambda x: abs(x[2])
SortKey(x) == Abs(x.val)

\* list.sort(key=..., reverse=True): stable, larger keys first
RECURSIVE SortReverse(_)
SortReverse(seq) ==
    IF seq = <<>> THEN <<>>
    ELSE LET rest == SortReverse(SubSeq(seq, 1, Len(seq) - 1))
             x == seq[Len(seq)]
             before == {k \in 1..Len(rest) : SortKey(rest[k]) >= SortKey(x)}
             at == IF before = {} THEN 0 ELSE CHOOSE k \in before : \A l \in before : l <= k
         IN SubSeq(rest, 1, at) \o <<x>> \o SubSeq(rest, at + 1, Len(rest))

\* correlations[:15]
TopPairs == 15

\* one line per listed pair
CorrelationLines(correlations) ==
    IF correlations = <<>> THEN <<>>
    ELSE LET L[k \in 1..Len(correlations)] ==
                 (IF k = 1 THEN <<>> ELSE L[k - 1]) \o
                 <<correlations[k].col1, "<->", correlations[k].col2,
                   Fmt4(correlations[k].val)>>
         IN L[Len(correlations)]

\* columns is a list, <<>> standing for both None and [] (the code tests
\* "if columns:"); names that are not numeric columns of the dataset are
\* filtered out, not reported.  A name given twice makes corr_matrix.loc
\* return a frame, whose truth value raises ValueError.
find_correlations(g, columns, exc) ==
    IF g.raised # "" THEN Propagated(g)
    ELSE IF g.ret = None THEN NotLoaded(g)
    ELSE LET numeric_cols == Filter(D(g).columns, NumericCols(D(g)))
             cols == IF columns # <<>>
                     THEN Filter(columns, Range(numeric_cols))
                     ELSE numeric_cols
             twice == Cardinality(Range(cols)) < Len(cols)
             correlations == SortReverse(Correlations(D(g).rows, cols, 1, 2))
             top == SubSeq(correlations, 1,
                           IF Len(correlations) < TopPairs THEN Len(correlations)
                           ELSE TopPairs)
         IN IF Len(cols) < 2
            THEN Outcome(<<"Error:", "Need", "at", "least", "2", "numeric", "columns">>,
                         "", FALSE, g.heap)
            ELSE Analysis(g, IF twice THEN "ValueError" ELSE exc,
                          <<"Top", "correlations">> \o CorrelationLines(top))

\* Series.dropna() of a column: the values of its non-null cells, in order
ColClean(rows, column) ==
    LET cells == SelectSeq([i \in 1..Len(rows) |-> rows[i][column]],
                           LAMBDA c : c # NullCell)
    IN [i \in 1..Len(cells) |-> cells[i][1]]

\* the value at position k (from 0) of the sorted values
Kth(vals, k) ==
    CHOOSE v \in Range(vals) :
        /\ Cardinality({i \in 1..Len(vals) : vals[i] < v}) <= k
        /\ k < Cardinality({i \in 1..Len(vals) : vals[i] <= v})

\* den times Series.quantile(num / den), by linear interpolation between the
\* sorted values around position (n - 1) * num / den; NaN without values
Quantile(vals, num, den) ==
    IF vals = <<>> THEN NullCell
    ELSE LET pos == (Len(vals) - 1) * num
             lo == Kth(vals, pos \div den)
             hi == IF pos % den = 0 THEN lo ELSE Kth(vals, (pos \div den) + 1)
         IN <<den * lo + (pos % den) * (hi - lo)>>
Quantile4(vals, q4) == Quantile(vals, q4, 4)

\* f"{x:.2f}" of x = v / 8: an exact half goes to the even digit
Fmt2(sign, hundredths) ==
    LET d == hundredths % 100 IN
    (IF sign < 0 /\ hundredths > 0 THEN "-" ELSE "") \o ToString(hundredths \div 100)
    \o "." \o (IF d < 10 THEN "0" \o ToString(d) ELSE ToString(d))
Fmt2Eighths(v) ==
    LET a == Abs(v) * 100
        q == a \div 8
        r == a % 8
        hundredths == IF r > 4 \/ (r = 4 /\ q % 2 = 1) THEN q + 1 ELSE q
    IN Fmt2(v, hundredths)
Fmt2Hundredths(v) == Fmt2(v, Abs(v))

\* the IQR rule, in eighths: lower = Q1 - 1.5 * IQR, upper = Q3 + 1.5 * IQR
IqrBounds(vals) ==
    LET Q1 == Quantile4(vals, 1)
        Q3 == Quantile4(vals, 3)
        IQR == Q3[1] - Q1[1]
    IN IF vals = <<>> THEN [nan |-> TRUE, lower |-> 0, upper |-> 0]
       ELSE [nan |-> FALSE, lower |-> 2 * Q1[1] - 3 * IQR, upper |-> 2 * Q3[1] + 3 * IQR]

\* (col < lower) | (col > upper); a comparison with NaN is false
IqrOutside(x, b) == ~b.nan /\ (8 * x < b.lower \/ 8 * x > b.upper)

\* n * sum(x^2) - sum(x)^2, which is n * (n - 1) times the sample variance
SquaresN(vals) ==
    LET idx == 1..Len(vals) IN
    Len(vals) * SumOver([i \in idx |-> vals[i] * vals[i]], idx)
        - SumOver(vals, idx) * SumOver(vals, idx)

\* np.abs((col - mean) / std) > 3: false when std is NaN (fewer than two
\* values) or the quotient is 0 / 0 (std = 0)
ZOutside(x, vals) ==
    LET n == Len(vals)
        S == SumOver(vals, 1..n)
    IN /\ n >= 2
       /\ SquaresN(vals) > 0
       /\ (n * x - S) * (n * x - S) * (n - 1) > 9 * n * SquaresN(vals)

\* mean - 3 * std and mean + 3 * std in hundredths, to the last digit; NaN
\* when std is NaN
ZBounds(vals) ==
    LET n == Len(vals)
        mean == (100 * SumOver(vals, 1..n)) \div n
        std3 == ISqrt((90000 * SquaresN(vals)) \div (n * (n - 1)))
    IN IF n < 2 THEN [nan |-> TRUE, lower |-> 0, upper |-> 0]
       ELSE [nan |-> FALSE, lower |-> mean - std3, upper |-> mean + std3]

\* outliers.head(10)
SampleValues == 10

\* .tolist() of float values
FloatList(vals) == [i \in 1..Len(vals) |-> ToString(vals[i]) \o ".0"]

detect_outliers(g, column, method, exc) ==
    IF g.raised # "" THEN Propagated(g)
    ELSE IF g.ret = None THEN NotLoaded(g)
    ELSE IF column \notin Cols(D(g)) THEN ColumnNotFound(g, column)
    ELSE IF D(g).dtype[column] # "num" THEN ColumnNotNumeric(g, column)
    ELSE LET rows == D(g).rows
             col_clean == ColClean(rows, column)
             iqr == IqrBounds(col_clean)
             z == ZBounds(col_clean)
             outliers == IF method = "iqr"
                         THEN SelectSeq(col_clean, LAMBDA x : IqrOutside(x, iqr))
                         ELSE SelectSeq(col_clean, LAMBDA x : ZOutside(x, col_clean))
             bounds == IF method = "iqr"
                       THEN IF iqr.nan THEN <<"nan", "nan">>
                            ELSE <<Fmt2Eighths(iqr.lower), Fmt2Eighths(iqr.upper)>>
                       ELSE IF z.nan THEN <<"nan", "nan">>
                            ELSE <<Fmt2Hundredths(z.lower), Fmt2Hundredths(z.upper)>>
             range == IF col_clean = <<>> THEN <<"nan", "nan">>
                      ELSE <<Fmt2Hundredths(100 * Kth(col_clean, 0)),
                             Fmt2Hundredths(100 * Kth(col_clean, Len(col_clean) - 1))>>
             lines == <<"Outlier", "detection", "for", column, "using",
                        IF method = "iqr" THEN "IQR" ELSE "ZSCORE",
                        "Total", "values:", ToString(Len(rows)),
                        "Outliers", "found:", ToString(Len(outliers)),
                        "Bounds:">> \o bounds \o <<"Column", "range:">> \o range \o
                      (IF outliers = <<>> THEN <<>>
                       ELSE <<"Sample", "outlier", "values:">> \o
                            FloatList(SubSeq(outliers, 1,
                                             IF Len(outliers) < SampleValues
                                             THEN Len(outliers) ELSE SampleValues)))
         IN Analysis(g, IF rows = <<>> THEN "ZeroDivisionError" ELSE exc, lines)

\* FREQ_MAP.get(freq, freq): the old aliases and their new names
FREQ_MAP ==
    [old \in {"M", "Q", "Y", "A", "H", "T", "S", "L", "U", "N"} |->
        CASE old = "M" -> "ME" [] old = "Q" -> "QE" [] old = "Y" -> "YE" [] old = "A" -> "YE"
          [] old = "H" -> "h" [] old = "T" -> "min" [] old = "S" -> "s" [] old = "L" -> "ms"
          [] old = "U" -> "us" [] OTHER -> "ns"]
MapFreq(freq) == IF freq \in DOMAIN FREQ_MAP THEN FREQ_MAP[freq] ELSE freq

\* the days of a period of the frequencies of the docstring, from day 1,
\* Monday 2024-01-01, on: a day, a week that ends on a Sunday, and the first
\* month, quarter and year
PeriodDays ==
    [freq \in {"D", "W", "ME", "QE", "YE"} |->
        CASE freq = "D" -> 1 [] freq = "W" -> 7 [] freq = "ME" -> 31 [] freq = "QE" -> 91
          [] OTHER -> 366]

\* the dates written as strings, and their days
DateStrings == <<"2024-01-01", "2024-01-02", "2024-01-09">>
DateDays == [d \in Range(DateStrings) |->
                IF d = "2024-01-01" THEN 1 ELSE IF d = "2024-01-02" THEN 2 ELSE 9]

\* pd.to_datetime(.., errors="coerce") of a cell: the day of a date, of a
\* string that is one and of a number (nanoseconds after 1970-01-01, the day
\* 0 here); NaT for a missing value and for any other string
ToDatetime(dtype, cell) ==
    IF cell = NullCell THEN NullCell
    ELSE IF dtype = "dt" THEN cell
    ELSE IF dtype = "num" THEN <<0>>
    ELSE IF cell[1] \in Range(DateStrings) THEN <<DateDays[cell[1]]>>
    ELSE NullCell

\* df_ts: the rows with a date and a value, as [day, value]
SeriesRows(t, date_column, value_column) ==
    LET all == [i \in 1..Len(t.rows) |->
                   [day |-> ToDatetime(t.dtype[date_column], t.rows[i][date_column]),
                    value |-> t.rows[i][value_column]]]
    IN SelectSeq(all, LAMBDA r : r.day # NullCell /\ r.value # NullCell)

\* the period of a day
PeriodOf(day, width) == (day - 1) \div width

\* resample(freq).agg(["mean", "sum", "count"]): a row for every period
\* from that of the first day to that of the last; the mean of a period
\* without rows is NaN (count 0)
Resampled(series, width) ==
    IF series = <<>> THEN <<>>
    ELSE LET periods == {PeriodOf(series[i].day[1], width) : i \in 1..Len(series)}
             first == CHOOSE a \in periods : \A b \in periods : a <= b
             last == CHOOSE a \in periods : \A b \in periods : b <= a
         IN [k \in 1..(last - first + 1) |->
                LET idx == {i \in 1..Len(series) :
                               PeriodOf(series[i].day[1], width) = first + k - 1}
                IN [period |-> first + k - 1,
                    sum |-> SumOver([i \in idx |-> series[i].value[1]], idx),
                    count |-> Cardinality(idx)]]

\* the means are kept in sixtieths, which is exact for up to 6 rows a period
MeanScale == 60
Mean60(row) == (MeanScale * row.sum) \div row.count

\* the sign of the slope of np.polyfit(x, values, 1) for x = 0, 1, ..: that
\* of n * sum(x * y) - sum(x) * sum(y)
SlopeSign(values) ==
    LET n == Len(values)
        sx == SumOver([i \in 1..n |-> i - 1], 1..n)
        sy == SumOver([i \in 1..n |-> Mean60(values[i])], 1..n)
        sxy == SumOver([i \in 1..n |-> (i - 1) * Mean60(values[i])], 1..n)
        d == n * sxy - sx * sy
    IN IF d > 0 THEN 1 ELSE IF d < 0 THEN 0 - 1 ELSE 0

\* a variant of the test of the length: a fit needs a period
FitFrom1(values) == Len(values) >= 1

\* if len(values) > 1
Fit(values) == Len(values) > 1

\* trend
Trend(values) ==
    IF Fit(values)
    THEN (IF SlopeSign(values) > 0 THEN <<"increasing">> ELSE <<"decreasing">>)
    ELSE <<"insufficient", "data">>

\* f"{pct_change:.2f}" where pct_change = (last - first) / first * 100, the
\* quotient of floats: inf, -inf or nan when the first mean is 0
PctChange(values) ==
    IF ~Fit(values) THEN "0.00"
    ELSE LET first == Mean60(values[1])
             last == Mean60(values[Len(values)])
         IN IF first = 0
            THEN (IF last > 0 THEN "inf" ELSE IF last < 0 THEN "-inf" ELSE "nan")
            ELSE FmtValue([num |-> (IF first < 0 THEN 0 - 1 ELSE 1) * (last - first) * 100,
                           den |-> Abs(first)])

\* a period as a row of the table: its mean, sum and count
PeriodLines(resampled) ==
    Flatten([k \in 1..Len(resampled) |->
                <<ToString(resampled[k].period),
                  IF resampled[k].count = 0 THEN "NaN"
                  ELSE FmtValue([num |-> resampled[k].sum, den |-> resampled[k].count]),
                  ToString(resampled[k].sum), ToString(resampled[k].count)>>])

\* .head() and .tail(): five rows
HeadRows == 5
TailOf(seq, n) == SubSeq(seq, Len(seq) - Min(n, Len(seq)) + 1, Len(seq))

\* Any frequency other than those of the docstring is taken for an invalid
\* one; the aggregation of a value column that is not numeric raises
\* TypeError.  values.index[0] raises
\* IndexError when no period has a mean.
analyze_time_series(g, date_column, value_column, freq, exc) ==
    IF g.raised # "" THEN Propagated(g)
    ELSE IF g.ret = None THEN NotLoaded(g)
    ELSE IF date_column \notin Cols(D(g)) THEN ColumnNotFound(g, date_column)
    ELSE IF value_column \notin Cols(D(g)) THEN ColumnNotFound(g, value_column)
    ELSE IF exc # "" THEN Caught(g, exc)
    ELSE IF MapFreq(freq) \notin DOMAIN PeriodDays THEN Caught(g, "ValueError")
    ELSE IF D(g).dtype[value_column] # "num" THEN Caught(g, "TypeError")
    ELSE LET resampled == Resampled(SeriesRows(D(g), date_column, value_column),
                                    PeriodDays[MapFreq(freq)])
             values == SelectSeq(resampled, LAMBDA row : row.count > 0)
         IN IF values = <<>> THEN Caught(g, "IndexError")
            ELSE Report(g,
                     <<"Time", "series", "analysis:", value_column, "by", date_column,
                       "Frequency:", MapFreq(freq), "Periods:", ToString(Len(resampled)),
                       "Date", "range:", ToString(values[1].period), "to",
                       ToString(values[Len(values)].period), "Trend:">> \o Trend(values)
                     \o <<"Overall", "change:", PctChange(values), "Mean", "of", "means:",
                          FmtValue([num |-> SumOver([i \in 1..Len(values) |->
                                                        Mean60(values[i])], 1..Len(values)),
                                    den |-> MeanScale * Len(values)])>>
                     \o <<"First", "5", "periods:">> \o PeriodLines(HeadOf(resampled, HeadRows))
                     \o <<"Last", "5", "periods:">> \o PeriodLines(TailOf(resampled, HeadRows)))

find_patterns(g, group_by, agg_column, exc) ==
    IF g.raised # "" THEN Propagated(g)
    ELSE IF g.ret = None THEN NotLoaded(g)
    ELSE IF FirstNotIn(group_by, Cols(D(g))) # None
         THEN ColumnNotFound(g, FirstNotIn(group_by, Cols(D(g))))
    ELSE IF agg_column \notin Cols(D(g)) THEN ColumnNotFound(g, agg_column)
    ELSE Analysis(g, exc, <<"Pattern:", agg_column, "by">> \o group_by)

\* sample_size: int = 50000
DefaultSampleSize == 50000

\* the validation loop: the first column, in list order, that is absent or
\* not numeric is reported; valid is the outcome when there is none
RECURSIVE FirstInvalid(_, _, _)
FirstInvalid(g, columns, valid) ==
    IF columns = <<>> THEN valid
    ELSE IF Head(columns) \notin Cols(D(g)) THEN ColumnNotFound(g, Head(columns))
    ELSE IF D(g).dtype[Head(columns)] # "num" THEN ColumnNotNumeric(g, Head(columns))
    ELSE FirstInvalid(g, Tail(columns), valid)

\* df[cols].dropna(): the rows with a value in every one of the columns
DropNa(rows, cols) ==
    SelectSeq(rows, LAMBDA r : \A c \in Range(cols) : r[c] # NullCell)

\* the rows at the positions S, from position i on
Take(rows, S, i) ==
    LET at == SelectSeq([k \in 1..Len(rows) |-> k], LAMBDA k : k >= i /\ k \in S)
    IN <<>> \o [j \in 1..Len(at) |-> rows[at[j]]]

\* what StandardScaler.fit_transform and KMeans.fit_predict raise: the scaler
\* needs a sample and a feature, KMeans needs 1 <= n_clusters <= n_samples
ClusteringRaises(n_samples, n_features, n_clusters) ==
    IF n_samples = 0 \/ n_features = 0 THEN "ValueError"
    ELSE IF n_clusters < 1 THEN "ValueError"
    ELSE IF n_samples < n_clusters THEN "ValueError"
    ELSE ""

\* one line per feature of a cluster profile (the statistics are left out)
FeatureLines(valid_cols) ==
    IF valid_cols = <<>> THEN <<>>
    ELSE LET L[k \in 1..Len(valid_cols)] ==
                 (IF k = 1 THEN <<>> ELSE L[k - 1]) \o <<"-", valid_cols[k]>>
         IN L[Len(valid_cols)]

\* a variant of the profile loop that leaves out the clusters without rows
RECURSIVE ClusterProfilesNonEmpty(_, _, _, _)
ClusterProfilesNonEmpty(i, n_clusters, clusters, valid_cols) ==
    IF i >= n_clusters THEN <<>>
    ELSE LET count == Cardinality({j \in DOMAIN clusters : clusters[j] = i}) IN
         (IF count = 0 THEN <<>>
          ELSE <<"###", "Cluster", ToString(i), "(", ToString(count), "rows)">> \o
               FeatureLines(valid_cols))
         \o ClusterProfilesNonEmpty(i + 1, n_clusters, clusters, valid_cols)

\* lines 71-93, for i in range(n_clusters): the profile of the rows labelled i
RECURSIVE ClusterProfiles(_, _, _, _)
ClusterProfiles(i, n_clusters, clusters, valid_cols) ==
    IF i >= n_clusters THEN <<>>
    ELSE LET count == Cardinality({j \in DOMAIN clusters : clusters[j] = i}) IN
         <<"###", "Cluster", ToString(i), "(", ToString(count), "rows)">> \o
         FeatureLines(valid_cols)
         \o ClusterProfiles(i + 1, n_clusters, clusters, valid_cols)

\* sample is the set of positions df_clean.sample(n=sample_size,
\* random_state=42) draws, clusters the labels KMeans.fit_predict gives to the
\* sampled rows, exc an exception raised for another reason than the sizes
cluster_analysis(g, columns, n_clusters, sample_size, include_interpretation, sample, clusters, exc) ==
    IF g.raised # "" THEN Propagated(g)
    ELSE IF g.ret = None THEN NotLoaded(g)
    ELSE LET df_clean == DropNa(D(g).rows, columns)
             df_sample == IF Len(df_clean) > sample_size
                          THEN Take(df_clean, sample, 1)
                          ELSE df_clean
             raises == ClusteringRaises(Len(df_sample), Len(columns), n_clusters)
             lines == <<"##", "Cluster", "Analysis", "Results",
                        "Features:">> \o columns \o
                      <<"Clusters:", ToString(n_clusters),
                        "Sample", "size:", ToString(Len(df_sample)), "rows">> \o
                      ClusterProfiles(0, n_clusters, clusters, columns) \o
                      (IF include_interpretation
                       THEN <<"###", "Interpretation", "Guide">>
                       ELSE <<>>)
         IN FirstInvalid(g, columns,
                         Analysis(g, IF raises # "" THEN raises ELSE exc, lines))

find_segments(g, group_column, metric_column, exc) ==
    IF g.raised # "" THEN Propagated(g)
    ELSE IF g.ret = None THEN NotLoaded(g)
    ELSE IF group_column \notin Cols(D(g)) THEN ColumnNotFound(g, group_column)
    ELSE IF metric_column \notin Cols(D(g)) THEN ColumnNotFound(g, metric_column)
    ELSE Analysis(g, exc, <<"Segmentation", "Analysis", group_column, metric_column>>)

\* (df[col] == value).sum()
CountEqual(rows, col, value) ==
    Cardinality({i \in 1..Len(rows) : rows[i][col] = <<value>>})

\* (df[col] < 0).sum()
CountNegative(rows, col) ==
    Cardinality({i \in 1..Len(rows) : rows[i][col] # NullCell /\ rows[i][col][1] < 0})

\* df.isnull().sum() of a column
Missing(rows, col) == Cardinality({i \in 1..Len(rows) : rows[i][col] = NullCell})

\* section 1: the columns with more than 5% of missing values (in the order
\* of the table; the percentages are left out of the lines), and the issues
\* for those with more than 20%
HighMissing(t) ==
    SelectSeq(t.columns, LAMBDA c : Missing(t.rows, c) * 100 > 5 * Len(t.rows))
MissingIssues(t) ==
    SelectSeq(t.columns, LAMBDA c : Missing(t.rows, c) * 100 > 20 * Len(t.rows))

\* sentinel_values = [999999999, 999999, -999, -1, 0]
sentinel_values == <<999999999, 999999, -999, -1, 0>>

\* count > 100
SignificantRows == 100

\* a variant of the threshold on the count: 100 rows are enough
SentinelFoundFrom100(rows, col, sentinel) ==
    CountEqual(rows, col, sentinel) >= SignificantRows

\* the test of one column and one sentinel: it is found in more than 100 rows
SentinelFound(rows, col, sentinel) ==
    CountEqual(rows, col, sentinel) > SignificantRows

\* pct > 1, where pct = count / len(df) * 100
SentinelWarned(rows, col, sentinel) ==
    /\ SentinelFound(rows, col, sentinel)
    /\ CountEqual(rows, col, sentinel) * 100 > Len(rows)

\* the pairs of the two nested loops, in their order
SentinelPairs(numeric_cols) ==
    Flatten([c \in 1..Len(numeric_cols) |->
                [k \in 1..Len(sentinel_values) |->
                    [col |-> numeric_cols[c], sentinel |-> sentinel_values[k]]]])

\* section 3: the columns that must not be negative
NonNegativeColumns == <<"total_scheduled_quantity", "design_capacity", "operating_capacity">>
Negative(t) ==
    SelectSeq(NonNegativeColumns,
              LAMBDA c : c \in Cols(t) /\ CountNegative(t.rows, c) > 0)
\* pct > 0.1
NegativeWarned(t) ==
    SelectSeq(Negative(t), LAMBDA c : CountNegative(t.rows, c) * 1000 > Len(t.rows))

\* (a > b).sum() for two columns, limited to the rows where column c is
\* positive: a comparison with a missing value is false
CountAbove(rows, a, b, c) ==
    Cardinality({i \in 1..Len(rows) :
                    /\ rows[i][a] # NullCell /\ rows[i][b] # NullCell
                    /\ rows[i][a][1] > rows[i][b][1]
                    /\ c # None => (rows[i][c] # NullCell /\ rows[i][c][1] > 0)})

\* section 3: operating above design capacity, an issue, and available above
\* operating capacity, which is only listed
OperatingAboveDesign(t) ==
    IF {"design_capacity", "operating_capacity"} \subseteq Cols(t)
    THEN CountAbove(t.rows, "operating_capacity", "design_capacity", "design_capacity")
    ELSE 0
AvailableAboveOperating(t) ==
    IF {"operating_capacity", "operationally_available_capacity"} \subseteq Cols(t)
    THEN CountAbove(t.rows, "operationally_available_capacity", "operating_capacity",
                    "operating_capacity")
    ELSE 0

\* ((x < lo) | (x > hi)).sum() of a column
CountOutside(rows, col, lo, hi) ==
    Cardinality({i \in 1..Len(rows) :
                    rows[i][col] # NullCell /\ (rows[i][col][1] < lo \/ rows[i][col][1] > hi)})

\* outside_us_lon > 1000
PositiveLongitudeRows == 1000

\* section 4, for a table with both coordinates: the rows of an invalid
\* latitude and longitude, and outside_us_lon, the rows east of -60 or west
\* of -130 less the rows without a longitude
HasCoordinates(t) == {"location_latitude", "location_longitude"} \subseteq Cols(t)
OutsideUsLon(t) ==
    CountOutside(t.rows, "location_longitude", 0 - 130, 0 - 60)
    - Missing(t.rows, "location_longitude")
GeographicLines(t) ==
    LET invalid_lat == CountOutside(t.rows, "location_latitude", 0 - 90, 90)
        invalid_lon == CountOutside(t.rows, "location_longitude", 0 - 180, 180)
    IN <<"###", "4.", "Geographic", "Data", "Issues">>
       \o (IF invalid_lat > 0 THEN <<"-", "Invalid", "latitude", ToString(invalid_lat)>>
           ELSE <<>>)
       \o (IF invalid_lon > 0 THEN <<"-", "Invalid", "longitude", ToString(invalid_lon)>>
           ELSE <<>>)
       \o (IF OutsideUsLon(t) > PositiveLongitudeRows
           THEN <<"-", "Positive", "longitude", "values", ToString(OutsideUsLon(t))>>
           ELSE <<>>)

\* section 5, for a table with both dates: the rows posted after the gas day
HasDates(t) == {"gas_day", "posting_dt"} \subseteq Cols(t)
TemporalLines(t) ==
    LET future_posting == CountAbove(t.rows, "posting_dt", "gas_day", None)
    IN <<"###", "5.", "Temporal", "Consistency">>
       \o (IF future_posting > 0
           THEN <<"-", "Posting", "after", "gas", "day", ToString(future_posting)>>
           ELSE <<>>)

\* section 6: df.duplicated().sum(), and the same on the key columns if the
\* table has two of them
DuplicateLines(t) ==
    LET key_cols == SelectSeq(<<"smx_location_id", "gas_day", "cycle_desc">>,
                              LAMBDA c : c \in Cols(t))
        keys == {[k \in 1..Len(key_cols) |-> t.rows[i][key_cols[k]]] : i \in 1..Len(t.rows)}
        key_dups == Len(t.rows) - Cardinality(keys)
    IN <<"###", "6.", "Duplicate", "Records", "-", "Exact", "duplicates:",
         ToString(Len(t.rows) - Cardinality(Range(t.rows)))>>
       \o (IF Len(key_cols) >= 2 /\ key_dups > 0
           THEN <<"-", "Key", "duplicates", ToString(key_dups)>>
           ELSE <<>>)

\* a variant of the closing that looks at the issues only
ClosingOnIssues(issues, warnings) ==
    IF issues = <<>>
    THEN <<"No", "major", "data", "quality", "issues", "detected">>
    ELSE <<"###", "Recommendations">>

\* if not issues and not warnings: the all-clear, else the recommendations
Closing(issues, warnings) ==
    IF issues = <<>> /\ warnings = <<>>
    THEN <<"No", "major", "data", "quality", "issues", "detected">>
    ELSE <<"###", "Recommendations">>

\* the report; the columns it compares with numbers are numeric in every
\* table here, the dates are dates
data_quality_report(g, exc) ==
    IF g.raised # "" THEN Propagated(g)
    ELSE IF g.ret = None THEN NotLoaded(g)
    ELSE LET t == D(g)
             rows == t.rows
             numeric_cols == Filter(t.columns, NumericCols(t))
             found == SelectSeq(SentinelPairs(numeric_cols),
                                LAMBDA x : SentinelFound(rows, x.col, x.sentinel))
             warned == SelectSeq(found,
                                 LAMBDA x : SentinelWarned(rows, x.col, x.sentinel))
             high == HighMissing(t)
             biased == MissingIssues(t)
             negative == Negative(t)
             issues == Flatten([k \in 1..Len(biased) |->
                                   <<"-", biased[k], "missing", "may", "bias", "results">>])
                       \o (IF OperatingAboveDesign(t) > 0
                           THEN <<"-", "operating", "capacity", "exceeding", "design",
                                  "capacity">>
                           ELSE <<>>)
             warnings ==
                 Flatten([k \in 1..Len(warned) |->
                             <<"-", warned[k].col, "contains", "placeholder", "values",
                               ToString(warned[k].sentinel)>>])
                 \o Flatten([k \in 1..Len(NegativeWarned(t)) |->
                                <<"-", NegativeWarned(t)[k], "has", "negative", "values">>])
                 \o (IF HasCoordinates(t) /\ OutsideUsLon(t) > PositiveLongitudeRows
                     THEN <<"-", "Many", "positive", "longitude", "values">>
                     ELSE <<>>)
             lines ==
                 <<"##", "Data", "Quality", "Report", ToString(Len(rows)), "rows">>
                 \o (IF high = <<>> THEN <<>>
                     ELSE <<"###", "1.", "Missing", "Data">> \o
                          Flatten([k \in 1..Len(high) |->
                                      <<"-", high[k], "missing",
                                        ToString(Missing(rows, high[k])), "rows">>]))
                 \o <<"###", "2.", "Potential", "Placeholder", "Values">>
                 \o Flatten([k \in 1..Len(found) |->
                                <<"-", found[k].col,
                                  ToString(CountEqual(rows, found[k].col, found[k].sentinel)),
                                  "rows", "have", "value", ToString(found[k].sentinel)>>])
                 \o (IF found = <<>>
                     THEN <<"-", "No", "significant", "placeholder", "values", "detected">>
                     ELSE <<>>)
                 \o <<"###", "3.", "Logical", "Inconsistencies">>
                 \o (IF OperatingAboveDesign(t) > 0
                     THEN <<"-", "Operating", ">", "Design", "capacity",
                            ToString(OperatingAboveDesign(t))>>
                     ELSE <<>>)
                 \o (IF AvailableAboveOperating(t) > 0
                     THEN <<"-", "Available", ">", "Operating", "capacity",
                            ToString(AvailableAboveOperating(t))>>
                     ELSE <<>>)
                 \o Flatten([k \in 1..Len(negative) |-> <<"-", "Negative", negative[k]>>])
                 \o (IF HasCoordinates(t) THEN GeographicLines(t) ELSE <<>>)
                 \o (IF HasDates(t) THEN TemporalLines(t) ELSE <<>>)
                 \o DuplicateLines(t)
                 \o <<"##", "Impact", "Assessment">>
                 \o (IF issues = <<>> THEN <<>>
                     ELSE <<"###", "High-Impact", "Issues">> \o issues)
                 \o (IF warnings = <<>> THEN <<>>
                     ELSE <<"###", "Moderate", "Concerns">> \o warnings)
                 \o Closing(issues, warnings)
         IN Analysis(g, exc, lines)

\* df.groupby(group)[metric].sum(): the groups are the non-null keys, a null
\* metric counts for nothing
Groups(rows, group) ==
    {rows[i][group][1] : i \in {k \in 1..Len(rows) : rows[k][group] # NullCell}}
GroupSum(rows, group, metric, key) ==
    LET idx == {i \in 1..Len(rows) :
                   rows[i][group] = <<key>> /\ rows[i][metric] # NullCell}
    IN SumOver([i \in idx |-> rows[i][metric][1]], idx)

\* for sentinel in [999999999, 999999]
compare_sentinels == <<999999999, 999999>>

\* df_clean after each filter: the nulls, the two placeholders in turn and the
\* negatives of the metric are removed
WithoutNulls(rows, metric) == SelectSeq(rows, LAMBDA r : r[metric] # NullCell)
RECURSIVE WithoutSentinel(_, _, _)
WithoutSentinel(rows, metric, k) ==
    IF k = 0 THEN WithoutNulls(rows, metric)
    ELSE SelectSeq(WithoutSentinel(rows, metric, k - 1),
                   LAMBDA r : r[metric] # <<compare_sentinels[k]>>)
CleanRows(rows, metric) ==
    SelectSeq(WithoutSentinel(rows, metric, Len(compare_sentinels)),
              LAMBDA r : r[metric][1] >= 0)

\* filters_applied: a line for each filter that removed rows
FiltersApplied(rows, metric) ==
    LET null_count == Len(rows) - Len(WithoutNulls(rows, metric))
        sentinel_count(k) == Len(WithoutSentinel(rows, metric, k - 1))
                             - Len(WithoutSentinel(rows, metric, k))
        neg_count == Len(WithoutSentinel(rows, metric, Len(compare_sentinels)))
                     - Len(CleanRows(rows, metric))
    IN (IF null_count > 0 THEN <<"Removed", ToString(null_count), "null", "values">>
        ELSE <<>>)
       \o Flatten([k \in 1..Len(compare_sentinels) |->
                      IF sentinel_count(k) > 0
                      THEN <<"Removed", ToString(sentinel_count(k)), "placeholder", "values",
                             ToString(compare_sentinels[k])>>
                      ELSE <<>>])
       \o (IF neg_count > 0 THEN <<"Removed", ToString(neg_count), "negative", "values">>
           ELSE <<>>)

\* Series.agg(agg_func) of the metric of some rows, as a fraction: the sum
\* and the count skip the nulls, the mean of no value is NaN (den = 0)
Agg(rows, metric, agg_func) ==
    LET idx == {i \in 1..Len(rows) : rows[i][metric] # NullCell}
        total == SumOver([i \in idx |-> rows[i][metric][1]], idx)
    IN IF agg_func = "count" THEN [num |-> Cardinality(idx), den |-> 1]
       ELSE IF agg_func = "mean" THEN [num |-> total, den |-> Cardinality(idx)]
       ELSE [num |-> total, den |-> 1]

\* a > b for two such fractions; a NaN is greater than nothing
Greater(a, b) ==
    /\ a.den # 0
    /\ b.den # 0
    /\ \/ a.num \div a.den > b.num \div b.den
       \/ /\ a.num \div a.den = b.num \div b.den
          /\ (a.num % a.den) * b.den > (b.num % b.den) * a.den

\* groupby(group)[metric].agg(agg_func).sort_values(ascending=False): the
\* groups by falling value, NaN last (which of two equal values comes first
\* is not determined here)
RECURSIVE Ranked(_, _, _, _, _)
Ranked(rows, group, metric, agg_func, S) ==
    IF S = {} THEN <<>>
    ELSE LET val(key) == Agg(SelectSeq(rows, LAMBDA r : r[group] = <<key>>), metric, agg_func)
             top == CHOOSE a \in S :
                        /\ \A b \in S : ~Greater(val(b), val(a))
                        /\ val(a).den = 0 => \A b \in S : val(b).den = 0
         IN <<[name |-> top, val |-> val(top)]>>
            \o Ranked(rows, group, metric, agg_func, S \ {top})

\* the names of a ranking
Names(ranking) == [k \in 1..Len(ranking) |-> ranking[k].name]

\* the lines of a ranking
RankingLines(ranking) ==
    Flatten([k \in 1..Len(ranking) |-> <<ranking[k].name, FmtValue(ranking[k].val)>>])

\* a variant of the test of the rankings: the top 5 as sets
RankingsChangedAsSets(raw_top5, clean_top5) == Range(raw_top5) # Range(clean_top5)

\* if raw_top5 != clean_top5: two lists
RankingsChanged(raw_top5, clean_top5) == raw_top5 # clean_top5

\* the names of set(clean_top5) - set(raw_top5), in the order of clean_top5
\* (a set is joined in an order of its own)
NewEntries(raw_top5, clean_top5) ==
    SelectSeq(clean_top5, LAMBDA name : name \notin Range(raw_top5))

\* the comparison by group
GroupComparison(rows, clean, group, metric, agg_func) ==
    LET raw_result == HeadOf(Ranked(rows, group, metric, agg_func, Groups(rows, group)), 10)
        clean_result == HeadOf(Ranked(clean, group, metric, agg_func, Groups(clean, group)), 10)
        raw_top5 == Names(HeadOf(raw_result, 5))
        clean_top5 == Names(HeadOf(clean_result, 5))
        new_entries == NewEntries(raw_top5, clean_top5)
    IN <<"Comparison", "by", group, "Raw", "Data:">> \o RankingLines(raw_result)
       \o <<"Clean", "Data:">> \o RankingLines(clean_result)
       \o (IF RankingsChanged(raw_top5, clean_top5)
           THEN <<"Rankings", "changed", "after", "cleaning!">>
                \o (IF new_entries # <<>> THEN <<"New", "in", "top", "5:">> \o new_entries
                    ELSE <<>>)
           ELSE <<>>)

\* the overall comparison; the impact is significant when abs(diff_pct) > 5
OverallComparison(rows, clean, metric, agg_func) ==
    LET raw_val == Agg(rows, metric, agg_func)
        clean_val == Agg(clean, metric, agg_func)
        differ == Greater(raw_val, clean_val) \/ Greater(clean_val, raw_val)
        significant ==
            /\ raw_val.den # 0 /\ clean_val.den # 0 /\ raw_val.num # 0
            /\ 20 * Abs(clean_val.num * raw_val.den - raw_val.num * clean_val.den)
                   > Abs(raw_val.num) * clean_val.den
    IN <<"Overall", "Comparison", "Raw", "data", agg_func, FmtValue(raw_val),
         "Clean", "data", agg_func, FmtValue(clean_val), "Difference:">>
       \o (IF significant THEN <<"Significant", "impact">> ELSE <<>>)

\* group_column is None or a name; a name that is not a column selects the
\* overall comparison, it is not reported.  agg_func is one of sum, mean and
\* count.  The percentages are not printed; of a table without rows the
\* percentage of rows removed raises ZeroDivisionError, and the comparisons
\* of a metric that is not numeric raise TypeError.
compare_with_without_issues(g, metric_column, group_column, agg_func, exc) ==
    IF g.raised # "" THEN Propagated(g)
    ELSE IF g.ret = None THEN NotLoaded(g)
    ELSE IF metric_column \notin Cols(D(g)) THEN ColumnNotFound(g, metric_column)
    ELSE IF D(g).dtype[metric_column] # "num" THEN Caught(g, "TypeError")
    ELSE IF D(g).rows = <<>> /\ exc = "" THEN Caught(g, "ZeroDivisionError")
    ELSE LET rows == D(g).rows
             clean == CleanRows(rows, metric_column)
             head == <<"Data", "Quality", "Impact", "Analysis", metric_column, agg_func,
                       "Filters", "Applied">> \o FiltersApplied(rows, metric_column)
                     \o <<"Rows", "removed:", ToString(Len(rows) - Len(clean))>>
         IN IF group_column # None /\ group_column \in Cols(D(g))
            THEN Analysis(g, exc, head \o GroupComparison(rows, clean, group_column,
                                                          metric_column, agg_func))
            ELSE Analysis(g, exc, head \o OverallComparison(rows, clean, metric_column,
                                                            agg_func))

\* len(subset) > 30, and corr_range > 0.2 in ten-thousandths
MinStratum == 30
RangeLimit == 2000

\* four times the bin edges of pd.qcut(values, q=4): the quantiles 0, 0.25,
\* 0.5, 0.75 and 1 of the values
QcutEdges(vals) == <<>> \o [k \in 1..5 |-> Quantile4(vals, k - 1)[1]]

\* duplicates="drop" leaves fewer than five edges for the four labels, and
\* qcut raises ValueError; so it does without values
QcutRaises(vals) == vals = <<>> \/ Cardinality(Range(QcutEdges(vals))) # 5

\* the label of the bin (edge k, edge k + 1] that holds x, the lowest edge
\* included
QcutLabel(edges, x) ==
    LET k == CHOOSE j \in 1..4 : 4 * x <= edges[j + 1] /\ \A i \in 1..(j - 1) : 4 * x > edges[i + 1]
    IN <<"Q1", "Q2", "Q3", "Q4">>[k]

\* df_temp[strat_col]: the bin of a numeric confounder, the value of another
StratumLabels(t, confounder) ==
    IF t.dtype[confounder] # "num"
    THEN <<>> \o [i \in 1..Len(t.rows) |-> t.rows[i][confounder]]
    ELSE CHOOSE labels \in
             {<<>> \o [i \in 1..Len(t.rows) |->
                         IF t.rows[i][confounder] = NullCell THEN NullCell
                         ELSE <<QcutLabel(edges, t.rows[i][confounder][1])>>] :
                 edges \in {QcutEdges(ColClean(t.rows, confounder))}} : TRUE

\* Series.dropna().unique(): the values in the order of their first rows
Unique(cells) ==
    LET firsts == SelectSeq([i \in 1..Len(cells) |-> i],
                            LAMBDA i : cells[i] # NullCell
                                       /\ \A j \in 1..(i - 1) : cells[j] # cells[i])
    IN [k \in 1..Len(firsts) |-> cells[firsts[k]][1]]

\* a variant of the sample size test: len(subset) >= 30
LargeEnoughFrom30(n) == n >= MinStratum

\* if len(subset) > 30
LargeEnough(n) == n > MinStratum

\* the list correlations of one confounder: for each group whose subset is
\* large enough and whose correlation is not NaN, (group, corr, len(subset))
StratumCorrelations(t, feature_column, target_column, confounder) ==
    LET labels == StratumLabels(t, confounder)
        groups == Unique(labels)
        numeric == t.dtype[feature_column] = "num" /\ t.dtype[target_column] = "num"
        subset(k) == Take(t.rows, {i \in 1..Len(labels) : labels[i] = <<groups[k]>>}, 1)
        L[k \in 0..Len(groups)] ==
            IF k = 0 THEN <<>>
            ELSE L[k - 1] \o
                 (IF LargeEnough(Len(subset(k))) /\ numeric
                     /\ Pearson(subset(k), feature_column, target_column) # NullCell
                  THEN << [group |-> groups[k],
                           corr |-> Pearson(subset(k), feature_column, target_column)[1],
                           n |-> Len(subset(k))] >>
                  ELSE <<>>)
    IN L[Len(groups)]

\* max(corr_values) - min(corr_values)
CorrRange(correlations) ==
    LET corr_values == {correlations[k].corr : k \in 1..Len(correlations)}
    IN (CHOOSE v \in corr_values : \A w \in corr_values : w <= v)
       - (CHOOSE v \in corr_values : \A w \in corr_values : v <= w)

\* the section of one confounder: its heading, a line for each listed
\* correlation and, if any is listed, the finding
ConfounderSection(t, feature_column, target_column, confounder) ==
    LET correlations == StratumCorrelations(t, feature_column, target_column, confounder)
    IN <<"Controlling", "for:", confounder>>
       \o Flatten([k \in 1..Len(correlations) |->
                      <<"-", correlations[k].group, "r", "=", Fmt4(correlations[k].corr),
                        "n", "=", ToString(correlations[k].n)>>])
       \o (IF correlations = <<>> THEN <<>>
           ELSE IF CorrRange(correlations) > RangeLimit
           THEN <<"Correlation", "varies", "by", confounder>>
           ELSE <<"Correlation", "stable", "across", confounder>>)

\* The range is not printed.  A numeric confounder whose quartiles coincide
\* makes qcut raise ValueError.
check_confounders(g, target_column, feature_column, potential_confounders, exc) ==
    LET all == <<target_column, feature_column>> \o potential_confounders IN
    IF g.raised # "" THEN Propagated(g)
    ELSE IF g.ret = None THEN NotLoaded(g)
    ELSE IF FirstNotIn(all, Cols(D(g))) # None
         THEN ColumnNotFound(g, FirstNotIn(all, Cols(D(g))))
    ELSE LET t == D(g)
             numeric == t.dtype[feature_column] = "num" /\ t.dtype[target_column] = "num"
             overall_corr == Pearson(t.rows, feature_column, target_column)
             raises == \E k \in 1..Len(potential_confounders) :
                          /\ t.dtype[potential_confounders[k]] = "num"
                          /\ QcutRaises(ColClean(t.rows, potential_confounders[k]))
         IN IF raises /\ exc = "" THEN Caught(g, "ValueError")
            ELSE Analysis(g, exc,
                     <<"Confounder", "Analysis", feature_column, target_column>>
                     \o (IF numeric
                         THEN <<"Overall", "Correlation:",
                                IF overall_corr = NullCell THEN "nan"
                                ELSE Fmt4(overall_corr[1])>>
                         ELSE <<>>)
                     \o <<"Stratified", "Analysis">>
                     \o Flatten([k \in 1..Len(potential_confounders) |->
                                    ConfounderSection(t, feature_column, target_column,
                                                      potential_confounders[k])])
                     \o <<"Interpretation", "Guide">>)

\* head(5), and the overlap a check requires: >= 4
TopN == 5
MinOverlap == 4

\* sort_values(ascending=False) of the sums (which of two equal sums comes
\* first is not determined here)
RECURSIVE SortedGroups(_, _, _, _)
SortedGroups(rows, group, metric, S) ==
    IF S = {} THEN <<>>
    ELSE LET top == CHOOSE a \in S :
                        \A b \in S : GroupSum(rows, group, metric, a)
                                     >= GroupSum(rows, group, metric, b)
         IN <<top>> \o SortedGroups(rows, group, metric, S \ {top})

\* list(... .head(5).index)
Top5(rows, group, metric) ==
    LET sorted == SortedGroups(rows, group, metric, Groups(rows, group))
    IN SubSeq(sorted, 1, Min(TopN, Len(sorted)))

\* len(set(baseline_top5) & set(top5))
Overlap(baseline_top5, top5) == Cardinality(Range(baseline_top5) \cap Range(top5))

\* twice Series.median() of the dates that are not NaT; NaT without dates
Median2(days) ==
    LET n == Len(days) IN
    IF n = 0 THEN NullCell
    ELSE IF n % 2 = 1 THEN <<2 * Kth(days, (n - 1) \div 2)>>
    ELSE <<Kth(days, (n \div 2) - 1) + Kth(days, n \div 2)>>

\* the two halves: gas_day <= median_date and gas_day > median_date
Early(rows, median2) ==
    SelectSeq(rows, LAMBDA r : r.gas_day # NullCell /\ median2 # NullCell
                               /\ 2 * r.gas_day[1] <= median2[1])
Late(rows, median2) ==
    SelectSeq(rows, LAMBDA r : r.gas_day # NullCell /\ median2 # NullCell
                               /\ 2 * r.gas_day[1] > median2[1])

\* total_checks += 2, and checks_passed += 1 for each half that passes
TemporalChecks(early_overlap, late_overlap) ==
    [total |-> 2,
     passed |-> (IF early_overlap >= MinOverlap THEN 1 ELSE 0)
                + (IF late_overlap >= MinOverlap THEN 1 ELSE 0)]

\* n_samples = 5
n_samples == 5

\* round(0.5 * n): the size of df.sample(frac=0.5), a half going to the even
\* number
HalfOf(n) ==
    IF n % 2 = 0 THEN n \div 2
    ELSE IF (n \div 2) % 2 = 0 THEN n \div 2 ELSE (n \div 2) + 1

\* the rows within the 5th and the 95th percentile of the metric
Trimmed(rows, metric) ==
    LET vals == ColClean(rows, metric)
        lower == Quantile(vals, 1, 20)
        upper == Quantile(vals, 19, 20)
    IN SelectSeq(rows, LAMBDA r : /\ r[metric] # NullCell
                                  /\ 20 * r[metric][1] >= lower[1]
                                  /\ 20 * r[metric][1] <= upper[1])

\* the verdict line: robust when checks_passed == total_checks, moderately
\* robust when checks_passed >= total_checks * 0.5, fragile otherwise
\* (VerdictAboveHalf is a variant that asks for more than half)
VerdictAboveHalf(checks_passed, total_checks) ==
    IF checks_passed = total_checks THEN <<"Finding", "is", "robust">>
    ELSE IF 2 * checks_passed > total_checks
    THEN <<"Finding", "is", "moderately", "robust">>
    ELSE <<"Finding", "is", "fragile">>
\* a variant of Verdict that calls a finding robust only if a check was run
VerdictOfSomeCheck(checks_passed, total_checks) ==
    IF total_checks = 0 THEN <<"Finding", "is", "fragile">>
    ELSE IF checks_passed = total_checks THEN <<"Finding", "is", "robust">>
    ELSE IF 2 * checks_passed >= total_checks
    THEN <<"Finding", "is", "moderately", "robust">>
    ELSE <<"Finding", "is", "fragile">>
Verdict(checks_passed, total_checks) ==
    IF checks_passed = total_checks THEN <<"Finding", "is", "robust">>
    ELSE IF 2 * checks_passed >= total_checks
    THEN <<"Finding", "is", "moderately", "robust">>
    ELSE <<"Finding", "is", "fragile">>

\* samples[i] is the set of positions df.sample(frac=0.5, random_state=i)
\* draws; the groups are named by strings.  The sum of a column of strings is not modelled: with such a metric
\* the quantile of the outlier check raises TypeError.  The date of a NaT
\* median raises ValueError.
robustness_check(g, metric_column, group_column, test_type, samples, exc) ==
    IF g.raised # "" THEN Propagated(g)
    ELSE IF g.ret = None THEN NotLoaded(g)
    ELSE IF metric_column \notin Cols(D(g)) THEN ColumnNotFound(g, metric_column)
    ELSE IF group_column \notin Cols(D(g)) THEN ColumnNotFound(g, group_column)
    ELSE IF D(g).dtype[metric_column] # "num" THEN Caught(g, "TypeError")
    ELSE LET rows == D(g).rows
             baseline_top5 == Top5(rows, group_column, metric_column)
             temporal == test_type \in {"temporal", "all"} /\ "gas_day" \in Cols(D(g))
             days == ColClean(rows, "gas_day")
             median_date == Median2(days)
             early_overlap == Overlap(baseline_top5,
                                      Top5(Early(rows, median_date), group_column,
                                           metric_column))
             late_overlap == Overlap(baseline_top5,
                                     Top5(Late(rows, median_date), group_column,
                                          metric_column))
             t == IF temporal THEN TemporalChecks(early_overlap, late_overlap)
                  ELSE [total |-> 0, passed |-> 0]
             sampled == test_type \in {"sample", "all"}
             overlaps == [i \in 1..n_samples |->
                             Overlap(baseline_top5,
                                     Top5(Take(rows, samples[i], 1), group_column,
                                          metric_column))]
             sum_overlap == SumOver(overlaps, 1..n_samples)
             sample_robust == sum_overlap >= MinOverlap * n_samples
             trimmed == test_type \in {"outliers", "all"}
             overlap == Overlap(baseline_top5,
                                Top5(Trimmed(rows, metric_column), group_column,
                                     metric_column))
             checks_passed == t.passed
                              + (IF sampled /\ sample_robust THEN 1 ELSE 0)
                              + (IF trimmed /\ overlap >= MinOverlap THEN 1 ELSE 0)
             total_checks == t.total + (IF sampled THEN 1 ELSE 0)
                             + (IF trimmed THEN 1 ELSE 0)
             lines ==
                 <<"##", "Robustness", "Check", group_column, metric_column,
                   "Baseline", "Top", "5">> \o baseline_top5
                 \o (IF temporal
                     THEN <<"###", "Temporal", "Robustness",
                            "Early", "period:", ToString(early_overlap),
                            "Late", "period:", ToString(late_overlap)>> \o
                          (IF early_overlap >= MinOverlap /\ late_overlap >= MinOverlap
                           THEN <<"Temporally", "robust">>
                           ELSE <<"Rankings", "shift", "over", "time">>)
                     ELSE <<>>)
                 \o (IF sampled
                     THEN <<"###", "Sample", "Robustness", "Average", "overlap:",
                            ToString(sum_overlap \div n_samples) \o "." \o
                            ToString(((sum_overlap % n_samples) * 10) \div n_samples)>> \o
                          (IF sample_robust THEN <<"Sample", "robust">>
                           ELSE <<"Findings", "sensitive", "to", "sample">>)
                     ELSE <<>>)
                 \o (IF trimmed
                     THEN <<"###", "Outlier", "Robustness", "After", "removing",
                            "outliers:", ToString(overlap)>> \o
                          (IF overlap >= MinOverlap THEN <<"Outlier", "robust">>
                           ELSE <<"Findings", "may", "be", "driven", "by", "outliers">>)
                     ELSE <<>>)
                 \o <<"Summary:", ToString(checks_passed), "/", ToString(total_checks)>>
                 \o Verdict(checks_passed, total_checks)
         IN Analysis(g, IF temporal /\ median_date = NullCell THEN "ValueError" ELSE exc,
                     lines)

----------------------------------------------------------------------------
(* Strings as sequences of characters, for the query guard of
   src/tools/sql_tool.py *)

LowerCase == <<"a", "b", "c", "d", "e", "f", "g", "h", "i", "j", "k", "l", "m", "n", "o", "p", "q", "r", "s", "t", "u", "v", "w", "x", "y", "z">>
UpperCase == <<"A", "B", "C", "D", "E", "F", "G", "H", "I", "J", "K", "L", "M", "N", "O", "P", "Q", "R", "S", "T", "U", "V", "W", "X", "Y", "Z">>

\* str.upper(), character by character
UpperChar(c) ==
    IF \E i \in 1..Len(LowerCase) : LowerCase[i] = c
    THEN UpperCase[CHOOSE i \in 1..Len(LowerCase) : LowerCase[i] = c]
    ELSE c
Upper(s) == [i \in 1..Len(s) |-> UpperChar(s[i])]

IsSpace(c) == c \in {" ", "\t", "\n", "\r"}

\* str.strip()
RECURSIVE LStrip(_)
LStrip(s) == IF s # <<>> /\ IsSpace(Head(s)) THEN LStrip(Tail(s)) ELSE s
RECURSIVE RStrip(_)
RStrip(s) ==
    IF s # <<>> /\ IsSpace(s[Len(s)]) THEN RStrip(SubSeq(s, 1, Len(s) - 1)) ELSE s
Strip(s) == RStrip(LStrip(s))

\* sub in s
Contains(s, sub) ==
    \E i \in 0..(Len(s) - Len(sub)) : SubSeq(s, i + 1, i + Len(sub)) = sub

SELECT == <<"S", "E", "L", "E", "C", "T">>

\* sql_tool.py: forbidden, in list order
forbidden ==
    << [word |-> "INSERT", chars |-> <<"I", "N", "S", "E", "R", "T">>],
       [word |-> "UPDATE", chars |-> <<"U", "P", "D", "A", "T", "E">>],
       [word |-> "DELETE", chars |-> <<"D", "E", "L", "E", "T", "E">>],
       [word |-> "DROP", chars |-> <<"D", "R", "O", "P">>],
       [word |-> "ALTER", chars |-> <<"A", "L", "T", "E", "R">>],
       [word |-> "CREATE", chars |-> <<"C", "R", "E", "A", "T", "E">>],
       [word |-> "TRUNCATE", chars |-> <<"T", "R", "U", "N", "C", "A", "T", "E">>] >>

\* "SELECT COUNT(*) FROM pipeline_data"
QCount ==
    <<"S", "E", "L", "E", "C", "T", " ", "C", "O", "U", "N", "T", "(", "*", ")", " ", "F", "R", "O", "M", " ", "p", "i", "p", "e", "l", "i", "n", "e", "_", "d", "a", "t", "a">>

\* "DROP TABLE pipeline_data"
QDrop ==
    <<"D", "R", "O", "P", " ", "T", "A", "B", "L", "E", " ", "p", "i", "p", "e", "l", "i", "n", "e", "_", "d", "a", "t", "a">>

\* " select * from pipeline_data "
QLower ==
    <<" ", "s", "e", "l", "e", "c", "t", " ", "*", " ", "f", "r", "o", "m", " ", "p", "i", "p", "e", "l", "i", "n", "e", "_", "d", "a", "t", "a", " ">>

\* "SELECT created_dt FROM pipeline_data"
QCreatedDt ==
    <<"S", "E", "L", "E", "C", "T", " ", "c", "r", "e", "a", "t", "e", "d", "_", "d", "t", " ", "F", "R", "O", "M", " ", "p", "i", "p", "e", "l", "i", "n", "e", "_", "d", "a", "t", "a">>

\* "SELECT 1; DROP TABLE pipeline_data"
QInject ==
    <<"S", "E", "L", "E", "C", "T", " ", "1", ";", " ", "D", "R", "O", "P", " ", "T", "A", "B", "L", "E", " ", "p", "i", "p", "e", "l", "i", "n", "e", "_", "d", "a", "t", "a">>

\* "SELECT 'truncate', 'insert'"
QMulti ==
    <<"S", "E", "L", "E", "C", "T", " ", "'", "t", "r", "u", "n", "c", "a", "t", "e", "'", ",", " ", "'", "i", "n", "s", "e", "r", "t", "'">>

\* "WITH x AS (SELECT 1) SELECT * FROM x"
QWith ==
    <<"W", "I", "T", "H", " ", "x", " ", "A", "S", " ", "(", "S", "E", "L", "E", "C", "T", " ", "1", ")", " ", "S", "E", "L", "E", "C", "T", " ", "*", " ", "F", "R", "O", "M", " ", "x">>

\* ""
QEmpty ==
    <<>>

Queries == {QCount, QDrop, QLower, QCreatedDt, QInject, QMulti, QWith, QEmpty}

----------------------------------------------------------------------------
(* execute_sql_query: src/tools/sql_tool.py *)

\* sql_tool.py: at most this many rows are rendered
SqlMaxRows == 50

\* what database.execute_query answers: an exception, or a result of M rows
DbResults ==
    {[raised |-> TRUE, rows |-> 0]} \cup
    {[raised |-> FALSE, rows |-> m] : m \in {0, 1, SqlMaxRows, SqlMaxRows + 1}}

\* the answer of a database that is not asked
NoAnswer == [raised |-> FALSE, rows |-> 0]

\* a variant of the keyword scan that looks for the first word of the list only
FirstForbiddenHeadOnly(words, query_upper) ==
    IF words # <<>> /\ Contains(query_upper, Head(words).chars)
    THEN Head(words).word ELSE None

\* the position at which sub first occurs in s
FirstAt(s, sub) == CHOOSE i \in 1..Len(s) : SubSeq(s, i, i + Len(sub) - 1) = sub /\ \A j \in 1..(i - 1) : SubSeq(s, j, j + Len(sub) - 1) # sub

\* a variant of the keyword scan that takes the word that occurs first in the
\* text of the query
FirstForbiddenInText(words, query_upper) ==
    LET hits == {i \in 1..Len(words) : Contains(query_upper, words[i].chars)}
    IN IF hits = {} THEN None
       ELSE words[CHOOSE i \in hits : \A j \in hits : FirstAt(query_upper, words[i].chars) <= FirstAt(query_upper, words[j].chars)].word

\* the first word of forbidden, in list order, that occurs in query_upper
RECURSIVE FirstForbidden(_, _)
FirstForbidden(words, query_upper) ==
    IF words = <<>> THEN None
    ELSE IF Contains(query_upper, Head(words).chars) THEN Head(words).word
    ELSE FirstForbidden(Tail(words), query_upper)

\* to_string() of the first n rows of a DataFrame with a default index: a
\* header line, then one line per row, which begins with the row's index label
ToStringFrame(n) == <<"<columns>">> \o [i \in 1..n |-> ToString(i - 1)]

\* to_string() of the first n items of a Series with a default index: one line
\* per item
ToStringSeries(n) == [i \in 1..n |-> ToString(i - 1)]

\* the texts of the three rejections
SqlLocalModeError ==
    <<"Error:", "SQL", "queries", "only", "available", "in", "database",
      "mode.", "Use", "execute_pandas_code", "instead.">>
SqlOnlySelectError == <<"Error:", "Only", "SELECT", "queries", "are", "allowed">>
SqlForbiddenError(word) == <<"Error:", word, "operations", "are", "not", "allowed">>

\* a variant of execute_sql_query that scans for the forbidden keywords first,
\* before the mode and the SELECT prefix are looked at
execute_sql_query_keyword_first(query, dbres) ==
    LET query_upper == Upper(Strip(query))
        word == FirstForbidden(forbidden, query_upper)
    IN
    IF word # None THEN Outcome(SqlForbiddenError(word), "", FALSE, heap)
    ELSE IF ~USE_DATABASE THEN Outcome(SqlLocalModeError, "", FALSE, heap)
    ELSE IF ~StartsWith(query_upper, SELECT)
    THEN Outcome(SqlOnlySelectError, "", FALSE, heap)
    ELSE [ text |-> IF dbres.raised THEN <<"Error", "executing", "query:", "ProgrammingError">>
                    ELSE IF dbres.rows = 0 THEN <<"Query", "returned", "no", "results">>
                    ELSE ToStringFrame(dbres.rows),
           raised |-> "", ran |-> TRUE, heap |-> heap, sent |-> <<query>>,
           exc |-> IF dbres.raised THEN "ProgrammingError" ELSE "" ]

\* a variant of execute_sql_query that renders every row of the result
execute_sql_query_untruncated(query, dbres) ==
    LET query_upper == Upper(Strip(query))
        word == FirstForbidden(forbidden, query_upper)
    IN
    IF ~USE_DATABASE THEN Outcome(SqlLocalModeError, "", FALSE, heap)
    ELSE IF ~StartsWith(query_upper, SELECT)
    THEN Outcome(SqlOnlySelectError, "", FALSE, heap)
    ELSE IF word # None THEN Outcome(SqlForbiddenError(word), "", FALSE, heap)
    ELSE [ text |-> IF dbres.raised THEN <<"Error", "executing", "query:", "ProgrammingError">>
                    ELSE IF dbres.rows = 0 THEN <<"Query", "returned", "no", "results">>
                    ELSE ToStringFrame(dbres.rows),
           raised |-> "", ran |-> TRUE, heap |-> heap, sent |-> <<query>>,
           exc |-> IF dbres.raised THEN "ProgrammingError" ELSE "" ]

execute_sql_query(query, dbres) ==
    LET query_upper == Upper(Strip(query))
        word == FirstForbidden(forbidden, query_upper)
    IN
    IF ~USE_DATABASE THEN Outcome(SqlLocalModeError, "", FALSE, heap)
    ELSE IF ~StartsWith(query_upper, SELECT)
    THEN Outcome(SqlOnlySelectError, "", FALSE, heap)
    ELSE IF word # None THEN Outcome(SqlForbiddenError(word), "", FALSE, heap)
    ELSE [ text |-> IF dbres.raised THEN <<"Error", "executing", "query:", "ProgrammingError">>
                    ELSE IF dbres.rows = 0 THEN <<"Query", "returned", "no", "results">>
                    ELSE IF dbres.rows > SqlMaxRows
                    THEN ToStringFrame(SqlMaxRows) \o
                         <<"...", "(showing", ToString(SqlMaxRows), "of",
                           ToString(dbres.rows), "rows)">>
                    ELSE ToStringFrame(dbres.rows),
           raised |-> "", ran |-> TRUE, heap |-> heap, sent |-> <<query>>,
           exc |-> IF dbres.raised THEN "ProgrammingError" ELSE "" ]

----------------------------------------------------------------------------
(* execute_pandas_code: src/tools/pandas_tool.py *)

\* pandas_tool.py: a larger DataFrame or Series result is cut to this many rows
PandasMaxRows == 20

\* df['flag'] = 1, in place
AddFlag(t) ==
    [ columns |-> IF "flag" \in Cols(t) THEN t.columns ELSE Append(t.columns, "flag"),
      dtype |-> [c \in Cols(t) \cup {"flag"} |-> IF c = "flag" THEN "num" ELSE t.dtype[c]],
      rows |-> [i \in 1..Len(t.rows) |->
                   [c \in Cols(t) \cup {"flag"} |->
                       IF c = "flag" THEN <<1>> ELSE t.rows[i][c]]] ]

\* df.drop(df.index, inplace=True)
DropAllRows(t) == [t EXCEPT !.rows = <<>>]

Codes ==
    { "result = len(df)", "result = invalid_variable", "df['flag'] = 1",
      "df.drop(df.index, inplace=True)", "result = df", "raise SystemExit",
      "df = df.head(0); result = len(df)" }

\* bound: how far the size of a result goes beyond the rendering limits
MaxExtraRows == 2

\* code that builds a DataFrame or a Series of n rows
ResultSizes == 0..(PandasMaxRows + MaxExtraRows)
FrameCode(n) == "result = pd.DataFrame({'a': range(" \o ToString(n) \o ")})"
SeriesCode(n) == "result = pd.Series(range(" \o ToString(n) \o "))"

\* exec(code, {"df": df, ...}) on the table t that df refers to: the exception
\* raised (and whether it derives from Exception), what t holds afterwards and
\* the value bound to result
Exec(code, t) ==
    LET R(exc, isException, table, kind, n) ==
            [exc |-> exc, isException |-> isException, table |-> table,
             kind |-> kind, n |-> n]
    IN
    CASE code = "result = len(df)" -> R("", TRUE, t, "int", Len(t.rows))
      [] code = "result = invalid_variable" -> R("NameError", TRUE, t, "unset", 0)
      [] code = "df['flag'] = 1" -> R("", TRUE, AddFlag(t), "unset", 0)
      [] code = "df.drop(df.index, inplace=True)" -> R("", TRUE, DropAllRows(t), "unset", 0)
      [] code = "result = df" -> R("", TRUE, t, "DataFrame", Len(t.rows))
      [] code = "raise SystemExit" -> R("SystemExit", FALSE, t, "unset", 0)
      [] code = "df = df.head(0); result = len(df)" -> R("", TRUE, t, "int", 0)
      [] \E n \in ResultSizes : code = FrameCode(n) ->
             R("", TRUE, t, "DataFrame", CHOOSE n \in ResultSizes : code = FrameCode(n))
      [] \E n \in ResultSizes : code = SeriesCode(n) ->
             R("", TRUE, t, "Series", CHOOSE n \in ResultSizes : code = SeriesCode(n))

\* a variant of the rendering that cuts a result of PandasMaxRows rows already
RenderResultOffByOne(kind, n) ==
    IF kind = "DataFrame"
    THEN IF n >= PandasMaxRows
         THEN <<"DataFrame", "(", ToString(n), "rows):">> \o
              ToStringFrame(PandasMaxRows) \o <<"...">>
         ELSE ToStringFrame(n)
    ELSE IF kind = "Series"
    THEN IF n >= PandasMaxRows
         THEN <<"Series", "(", ToString(n), "items):">> \o
              ToStringSeries(PandasMaxRows) \o <<"...">>
         ELSE ToStringSeries(n)
    ELSE IF kind = "int" THEN <<ToString(n)>>
    ELSE <<"No", "'result'", "variable", "assigned">>

\* lines 33-44: the text for the value bound to result
RenderResult(kind, n) ==
    IF kind = "DataFrame"
    THEN IF n > PandasMaxRows
         THEN <<"DataFrame", "(", ToString(n), "rows):">> \o
              ToStringFrame(PandasMaxRows) \o <<"...">>
         ELSE ToStringFrame(n)
    ELSE IF kind = "Series"
    THEN IF n > PandasMaxRows
         THEN <<"Series", "(", ToString(n), "items):">> \o
              ToStringSeries(PandasMaxRows) \o <<"...">>
         ELSE ToStringSeries(n)
    ELSE IF kind = "int" THEN <<ToString(n)>>
    ELSE <<"No", "'result'", "variable", "assigned">>

execute_pandas_code(g, code) ==
    IF g.raised # "" THEN Propagated(g)
    ELSE IF g.ret = None THEN NotLoaded(g)
    ELSE LET x == Exec(code, D(g))
             h == [g.heap EXCEPT ![g.ret] = x.table]
         IN
         IF x.exc # "" /\ x.isException
         THEN [Outcome(<<"Error:", x.exc>>, "", TRUE, h) EXCEPT !.exc = x.exc]
         ELSE IF x.exc # "" THEN Outcome(<<>>, x.exc, TRUE, h)
         ELSE Outcome(RenderResult(x.kind, x.n), "", TRUE, h)

----------------------------------------------------------------------------
(* The sequential tool layer: set_dataframe and one invocation at a time *)

ColArgs == {"pipeline_name", "total_scheduled_quantity", "nonexistent"}
ColPairs ==
    { <<"pipeline_name", "total_scheduled_quantity">>,
      <<"total_scheduled_quantity", "pipeline_name">>,
      <<"nonexistent", "total_scheduled_quantity">>,
      <<"total_scheduled_quantity", "nonexistent">> }
ColLists ==
    { <<"total_scheduled_quantity", "design_capacity">>,
      <<"total_scheduled_quantity", "nonexistent", "design_capacity">>,
      <<"pipeline_name">> }
Excs == {"", "ValueError"}

\* whether the database answers a full-table query: it is asked only in
\* database mode with an empty cache
DbOks == IF USE_DATABASE /\ _cached_df = None THEN BOOLEAN ELSE {TRUE}

\* the observation left by an operation that is no tool invocation
NoCall(op) ==
    [tool |-> op, args |-> <<>>, dfSeen |-> None, dfBefore |-> None,
     cacheBefore |-> None, queried |-> FALSE, text |-> <<>>,
     raised |-> "", exc |-> "", ran |-> FALSE, sent |-> <<>>]

InitTools ==
    /\ USE_DATABASE \in BOOLEAN
    /\ heap = [id \in TableIds |->
                  IF id = FileId THEN SampleDf
                  ELSE IF id = SampleId THEN OtherDf ELSE NoTable]
    /\ _df = None
    /\ _cached_df = None
    /\ lastSet = None
    /\ resolved = [id \in {} |-> NoTable]
    /\ fetches = 0
    /\ okFetches = 0
    /\ lastCall = NoCall("")

\* set_dataframe(df)
set_dataframe(id) ==
    /\ _df' = id
    /\ lastSet' = id
    /\ lastCall' = NoCall("set_dataframe")
    /\ UNCHANGED <<USE_DATABASE, heap, _cached_df, resolved, fetches, okFetches>>
    /\ UNCHANGED <<schemaVars, concVars, agentVars, extVars>>

SetDataframe == \E id \in {FileId, SampleId} : set_dataframe(id)

\* a tool that does not call get_dataframe()
NoDataframe ==
    [ret |-> None, raised |-> "", cache |-> _cached_df, heap |-> heap, queried |-> FALSE]

\* one invocation of a tool: args are its arguments (column names, the query or
\* the code), g what its call of get_dataframe() did, out its outcome
Invoke(tool, args, g, out) ==
    /\ (g.queried /\ g.raised # "") => fetches < MaxFetches
    /\ heap' = out.heap
    /\ _cached_df' = g.cache
    /\ fetches' = IF g.queried THEN fetches + 1 ELSE fetches
    /\ okFetches' = IF g.queried /\ g.raised = "" THEN okFetches + 1 ELSE okFetches
    /\ resolved' = IF g.ret # None /\ g.ret \notin DOMAIN resolved
                   THEN [id \in DOMAIN resolved \cup {g.ret} |->
                            IF id = g.ret THEN g.heap[g.ret] ELSE resolved[id]]
                   ELSE resolved
    /\ lastCall' = [tool |-> tool, args |-> args, dfSeen |-> g.ret, dfBefore |-> _df,
                    cacheBefore |-> _cached_df, queried |-> g.queried,
                    text |-> out.text, raised |-> out.raised, exc |-> out.exc,
                    ran |-> out.ran, sent |-> out.sent]
    /\ UNCHANGED <<USE_DATABASE, _df, lastSet>>
    /\ UNCHANGED <<schemaVars, concVars, agentVars, extVars>>

ExecutePandasCode ==
    \E code \in Codes, dbok \in DbOks :
        LET g == GetDataframe(dbok) IN
        Invoke("execute_pandas_code", <<code>>, g, execute_pandas_code(g, code))

\* the database is asked only for a query the guard lets through
ExecuteSqlQuery ==
    \E query \in Queries :
        \E dbres \in IF execute_sql_query(query, NoAnswer).sent = <<>>
                     THEN {NoAnswer} ELSE DbResults :
            Invoke("execute_sql_query", <<query>>, NoDataframe, execute_sql_query(query, dbres))

GetColumnStats ==
    \E column \in ColArgs, exc \in Excs, dbok \in DbOks :
        LET g == GetDataframe(dbok) IN
        Invoke("get_column_stats", <<column>>, g, get_column_stats(g, column, exc))

FindCorrelations ==
    \E columns \in ColLists \cup {<<>>}, exc \in Excs, dbok \in DbOks :
        LET g == GetDataframe(dbok) IN
        Invoke("find_correlations", columns, g, find_correlations(g, columns, exc))

DetectOutliers ==
    \E column \in ColArgs, exc \in Excs, dbok \in DbOks :
        LET g == GetDataframe(dbok) IN
        Invoke("detect_outliers", <<column>>, g, detect_outliers(g, column, "iqr", exc))

AnalyzeTimeSeries ==
    \E p \in ColPairs \cup {<<"gas_day", "total_scheduled_quantity">>},
       exc \in Excs, dbok \in DbOks :
        LET g == GetDataframe(dbok) IN
        Invoke("analyze_time_series", p, g, analyze_time_series(g, p[1], p[2], "D", exc))

FindPatterns ==
    \E group_by \in ColLists, agg_column \in {"total_scheduled_quantity", "nonexistent"},
       exc \in Excs, dbok \in DbOks :
        LET g == GetDataframe(dbok) IN
        Invoke("find_patterns", group_by \o <<agg_column>>, g,
               find_patterns(g, group_by, agg_column, exc))

ClusterAnalysis ==
    \E columns \in ColLists, exc \in Excs, dbok \in DbOks :
        LET g == GetDataframe(dbok) IN
        LET n == IF g.raised = "" /\ g.ret # None /\ Range(columns) \subseteq Cols(D(g))
                 THEN Len(DropNa(D(g).rows, columns))
                 ELSE 0
        IN
        Invoke("cluster_analysis", columns, g,
               cluster_analysis(g, columns, 1, DefaultSampleSize, TRUE, {},
                                [j \in 1..n |-> 0], exc))

FindSegments ==
    \E p \in ColPairs, exc \in Excs, dbok \in DbOks :
        LET g == GetDataframe(dbok) IN
        Invoke("find_segments", p, g, find_segments(g, p[1], p[2], exc))

DataQualityReport ==
    \E exc \in Excs, dbok \in DbOks :
        LET g == GetDataframe(dbok) IN
        Invoke("data_quality_report", <<>>, g, data_quality_report(g, exc))

CompareWithWithoutIssues ==
    \E metric_column \in {"total_scheduled_quantity", "nonexistent"},
       group_column \in {None, "pipeline_name", "nonexistent"},
       exc \in Excs, dbok \in DbOks :
        LET g == GetDataframe(dbok) IN
        Invoke("compare_with_without_issues",
               <<metric_column>> \o (IF group_column = None THEN <<>> ELSE <<group_column>>),
               g, compare_with_without_issues(g, metric_column, group_column, "sum", exc))

CheckConfounders ==
    \E p \in ColPairs, potential_confounders \in {<<"pipeline_name">>, <<"nonexistent">>},
       exc \in Excs, dbok \in DbOks :
        LET g == GetDataframe(dbok) IN
        Invoke("check_confounders", p \o potential_confounders, g,
               check_confounders(g, p[1], p[2], potential_confounders, exc))

RobustnessCheck ==
    \E p \in ColPairs, exc \in Excs, dbok \in DbOks :
        LET g == GetDataframe(dbok)
            n == IF g.raised = "" /\ g.ret # None THEN Len(D(g).rows) ELSE 0
        IN
        Invoke("robustness_check", p, g,
               robustness_check(g, p[1], p[2], "all",
                                [i \in 1..n_samples |-> 1..HalfOf(n)], exc))

NextTools ==
    \/ SetDataframe
    \/ ExecutePandasCode
    \/ ExecuteSqlQuery
    \/ GetColumnStats
    \/ FindCorrelations
    \/ DetectOutliers
    \/ AnalyzeTimeSeries
    \/ FindPatterns
    \/ ClusterAnalysis
    \/ FindSegments
    \/ DataQualityReport
    \/ CompareWithWithoutIssues
    \/ CheckConfounders
    \/ RobustnessCheck

----------------------------------------------------------------------------
(* Schema summary: src/data_loader.py *)

\* a DataFrame passed to get_schema_summary: its table and the attributes set
\* on the object (load_dataset sets _total_rows on the database sample)
Frame(table, attrs) == [table |-> table, attrs |-> attrs]

NoAttrs == [a \in {} |-> 0]
TotalRows(n) == [a \in {"_total_rows"} |-> n]

EmptyOf(t) == [t EXCEPT !.rows = <<>>]

\* the tables get_schema_summary is called with: plain tables, database
\* samples carrying _total_rows, a table without rows and one without columns
Frames ==
    { Frame(SampleDf, NoAttrs), Frame(OtherDf, NoAttrs), Frame(DbTable, NoAttrs),
      Frame(OtherDf, TotalRows(3)), Frame(DbTable, TotalRows(1234567)),
      Frame(EmptyOf(SampleDf), NoAttrs), Frame(NoTable, NoAttrs),
      Frame(EmptyOf(DbTable), TotalRows(0)) }

\* an optional value: <<>> is None, <<v>> is v
NoneOpt == <<>>
Some(v) == <<v>>

\* f"{n:03d}"
Pad3(n) ==
    IF n < 10 THEN "00" \o ToString(n)
    ELSE IF n < 100 THEN "0" \o ToString(n) ELSE ToString(n)

\* f"{n:,}" for n >= 0
RECURSIVE FormatThousands(_)
FormatThousands(n) ==
    IF n < 1000 THEN ToString(n)
    ELSE FormatThousands(n \div 1000) \o "," \o Pad3(n % 1000)

\* the non-null values of a column
Values(t, col) ==
    {t.rows[i][col][1] : i \in {j \in 1..Len(t.rows) : t.rows[j][col] # NullCell}}
Nulls(t, col) == Cardinality({i \in 1..Len(t.rows) : t.rows[i][col] = NullCell})

MinOf(S) == CHOOSE v \in S : \A w \in S : v <= w
MaxOf(S) == CHOOSE v \in S : \A w \in S : v >= w

\* f"{x:.2f}" of an integral value; min() and max() of an empty column are nan
Fixed2(S, v) == IF S = {} THEN "nan" ELSE ToString(v) \o ".00"

\* f"{null_pct:.1f}": the null share in tenths of a percent; the mean of an
\* empty column is nan
NullPct(t, col) ==
    IF Len(t.rows) = 0 THEN "nan"
    ELSE LET tenths == (Nulls(t, col) * 2000 + Len(t.rows)) \div (2 * Len(t.rows))
         IN ToString(tenths \div 10) \o "." \o ToString(tenths % 10)

DtypeName(d) ==
    IF d = "num" THEN "(float64):"
    ELSE IF d = "dt" THEN "(datetime64[ns]):" ELSE "(object):"

\* the line of one column
ColumnLine(t, col) ==
    LET S == Values(t, col) IN
    <<"-", col, DtypeName(t.dtype[col])>> \o
    ( IF t.dtype[col] = "num"
      THEN <<"range", "[" \o Fixed2(S, IF S = {} THEN 0 ELSE MinOf(S)) \o ",",
             Fixed2(S, IF S = {} THEN 0 ELSE MaxOf(S)) \o "],">>
      ELSE IF t.dtype[col] = "dt"
      THEN <<IF S = {} THEN "NaT" ELSE ToString(MinOf(S)), "to",
             (IF S = {} THEN "NaT" ELSE ToString(MaxOf(S))) \o ",">>
      ELSE <<ToString(Cardinality(S)), "unique", "values,">> ) \o
    <<NullPct(t, col) \o "%", "null">>

RECURSIVE ColumnLines(_, _)
ColumnLines(t, columns) ==
    IF columns = <<>> THEN <<>>
    ELSE ColumnLine(t, Head(columns)) \o ColumnLines(t, Tail(columns))

\* the summary computed from df, whatever the cache holds
SummaryOf(df) ==
    LET row_count == IF "_total_rows" \in DOMAIN df.attrs
                     THEN df.attrs["_total_rows"] ELSE Len(df.table.rows)
    IN <<"Dataset:", FormatThousands(row_count), "rows", "x",
         ToString(Len(df.table.columns)), "columns", "Columns:">> \o
       ColumnLines(df.table, df.table.columns)

\* a variant of get_schema_summary that does not look at the cache
get_schema_summary_uncached(df) ==
    [ret |-> SummaryOf(df), cache |-> Some(SummaryOf(df)), computed |-> TRUE]

\* get_schema_summary(df): the string returned, the cache left behind and
\* whether the summary was computed
get_schema_summary(df) ==
    IF _schema_cache # NoneOpt
    THEN [ret |-> _schema_cache[1], cache |-> _schema_cache, computed |-> FALSE]
    ELSE [ret |-> SummaryOf(df), cache |-> Some(SummaryOf(df)), computed |-> TRUE]

\* bound on the number of get_schema_summary calls
MaxSchemaCalls == 3

InitSchema ==
    /\ _schema_cache = NoneOpt
    /\ schemaCalls = 0
    /\ schemaComputed = 0
    /\ lastSchema = [df |-> Frame(NoTable, NoAttrs), ret |-> <<>>,
                     cacheBefore |-> NoneOpt]
    /\ firstSummary = NoneOpt

GetSchemaSummary ==
    \E df \in Frames :
        LET r == get_schema_summary(df) IN
        /\ schemaCalls < MaxSchemaCalls
        /\ _schema_cache' = r.cache
        /\ schemaCalls' = schemaCalls + 1
        /\ schemaComputed' = IF r.computed THEN schemaComputed + 1 ELSE schemaComputed
        /\ lastSchema' = [df |-> df, ret |-> r.ret, cacheBefore |-> _schema_cache]
        /\ firstSummary' = IF firstSummary = NoneOpt THEN Some(r.ret) ELSE firstSummary
        /\ UNCHANGED <<toolVars, concVars, agentVars, extVars>>

NextSchema == GetSchemaSummary

----------------------------------------------------------------------------
(* get_dataframe() in database mode, called from several threads: the steps
   of src/tools/_shared.py lines 15-23, one per read or write of _cached_df.
   Each fetch that succeeds builds a new DataFrame, numbered by cfetches. *)

\* bound on the threads calling get_dataframe
NumThreads == 2
Threads == 1..NumThreads

InitConc ==
    /\ tpc = [t \in Threads |-> "idle"]
    /\ tlocal = [t \in Threads |-> NoneOpt]
    /\ tret = [t \in Threads |-> NoneOpt]
    /\ cfetches = 0
    /\ cfails = 0
    /\ ccache = NoneOpt

\* line 15: if _cached_df is not None
CheckCache(t) ==
    /\ tpc[t] = "idle"
    /\ tpc' = [tpc EXCEPT ![t] = IF ccache # NoneOpt THEN "return" ELSE "fetch"]
    /\ tret' = [tret EXCEPT ![t] = NoneOpt]
    /\ UNCHANGED <<tlocal, cfetches, cfails, ccache>>
    /\ UNCHANGED <<toolVars, schemaVars, agentVars, extVars>>

\* line 21, right-hand side: get_dataframe_from_db() returns a new table
Fetch(t) ==
    /\ tpc[t] = "fetch"
    /\ cfetches' = cfetches + 1
    /\ tlocal' = [tlocal EXCEPT ![t] = Some(cfetches + 1)]
    /\ tpc' = [tpc EXCEPT ![t] = "store"]
    /\ UNCHANGED <<tret, cfails, ccache>>
    /\ UNCHANGED <<toolVars, schemaVars, agentVars, extVars>>

\* line 21, right-hand side: get_dataframe_from_db() raises; the call ends
FetchRaises(t) ==
    /\ tpc[t] = "fetch"
    /\ cfails < MaxFetches
    /\ cfails' = cfails + 1
    /\ tpc' = [tpc EXCEPT ![t] = "idle"]
    /\ UNCHANGED <<tlocal, tret, cfetches, ccache>>
    /\ UNCHANGED <<toolVars, schemaVars, agentVars, extVars>>

\* line 21, assignment: _cached_df = ...
StoreCache(t) ==
    /\ tpc[t] = "store"
    /\ ccache' = tlocal[t]
    /\ tpc' = [tpc EXCEPT ![t] = "return"]
    /\ UNCHANGED <<tlocal, tret, cfetches, cfails>>
    /\ UNCHANGED <<toolVars, schemaVars, agentVars, extVars>>

\* lines 16 and 23: return _cached_df
ReturnCache(t) ==
    /\ tpc[t] = "return"
    /\ tret' = [tret EXCEPT ![t] = ccache]
    /\ tpc' = [tpc EXCEPT ![t] = "idle"]
    /\ UNCHANGED <<tlocal, cfetches, cfails, ccache>>
    /\ UNCHANGED <<toolVars, schemaVars, agentVars, extVars>>

NextConc ==
    \E t \in Threads :
        \/ CheckCache(t)
        \/ Fetch(t)
        \/ FetchRaises(t)
        \/ StoreCache(t)
        \/ ReturnCache(t)

----------------------------------------------------------------------------
(* The orchestration graph: src/agent.py build_graph *)

END == "__end__"

\* bounds: tool calls in one model response, model calls in one turn, turns
MaxToolCalls == 2
MaxModelCalls == 2
MaxTurns == 2

Message(role, tool_calls, tool_call_id) ==
    [role |-> role, tool_calls |-> tool_calls, tool_call_id |-> tool_call_id]

InitAgent ==
    /\ node = END
    /\ messages = <<>>
    /\ modelCalls = 0
    /\ turns = 0

\* app.invoke({"messages": [("user", ...)]}): the user message is appended to
\* the thread's history and the graph is entered at START, whose edge leads
\* to "agent"
StartTurn ==
    /\ node = END
    /\ turns < MaxTurns
    /\ messages' = Append(messages, Message("user", <<>>, 0))
    /\ node' = "agent"
    /\ modelCalls' = 0
    /\ turns' = turns + 1
    /\ UNCHANGED <<toolVars, schemaVars, concVars, extVars>>

\* the ids of the n tool calls of the response appended at position p
ToolCallIds(p, n) == [k \in 1..n |-> p * (MaxToolCalls + 1) + k]

\* agent_node: the model is called and its response appended; the
\* conditional edge should_continue is evaluated next
AgentNode ==
    /\ node = "agent"
    /\ modelCalls < MaxModelCalls
    /\ \E n \in 0..MaxToolCalls :
          messages' = Append(messages,
                             Message("ai", ToolCallIds(Len(messages) + 1, n), 0))
    /\ node' = "should_continue"
    /\ modelCalls' = modelCalls + 1
    /\ UNCHANGED turns
    /\ UNCHANGED <<toolVars, schemaVars, concVars, extVars>>

\* agent_node: get_llm() or llm.invoke() raises; the turn is aborted
AgentNodeRaises ==
    /\ node = "agent"
    /\ node' = "raised"
    /\ UNCHANGED <<messages, modelCalls, turns>>
    /\ UNCHANGED <<toolVars, schemaVars, concVars, extVars>>

\* a variant of the conditional edge that never routes to the tools
should_continue_never(msgs) == END

\* should_continue(state)
should_continue(msgs) ==
    IF msgs[Len(msgs)].tool_calls # <<>> THEN "tools" ELSE END

ShouldContinue ==
    /\ node = "should_continue"
    /\ node' = should_continue(messages)
    /\ UNCHANGED <<messages, modelCalls, turns>>
    /\ UNCHANGED <<toolVars, schemaVars, concVars, extVars>>

\* ToolNode(ALL_TOOLS): one tool message per tool call of the last message
ToolResults(msgs) ==
    LET calls == msgs[Len(msgs)].tool_calls IN
    [k \in 1..Len(calls) |-> Message("tool", <<>>, calls[k])]

ToolsNode ==
    /\ node = "tools"
    /\ messages' = messages \o ToolResults(messages)
    /\ node' = "agent"
    /\ UNCHANGED <<modelCalls, turns>>
    /\ UNCHANGED <<toolVars, schemaVars, concVars, extVars>>

NextAgent ==
    \/ StartTurn
    \/ AgentNode
    \/ AgentNodeRaises
    \/ ShouldContinue
    \/ ToolsNode

----------------------------------------------------------------------------
(* Conversation threads: api.py chat, chat_stream, clear_thread and the loop
   of main.py.  A thread id is a number: uuid.uuid4() returns nextUuid, an id
   never returned and never supplied before; a client may also supply an id
   of its own (ClientIds).  A checkpointer maps every id to a history, the
   empty one for an id it has not seen. *)

\* bounds: ids uuid4 may return, requests and CLI inputs handled
MaxUuids == 3
MaxRequests == 3

\* ids a client invents, and all ids
ClientIds == {"c"}
ThreadIds == ClientIds \cup {ToString(n) : n \in 1..(MaxUuids + 1)}

\* request.thread_id: None, the empty string, or an id the client invented
\* or was given before
SuppliedIds == {None, ""} \cup ClientIds \cup {ToString(n) : n \in 1..(nextUuid - 1)}

\* what a turn appends after the user message: the model's answer, or a tool
\* round and then the answer
TurnBodies ==
    { << Message("ai", <<>>, 0) >>,
      << Message("ai", <<1>>, 0), Message("tool", <<>>, 1), Message("ai", <<>>, 0) >> }

\* agent.invoke({"messages": [("user", ..)]}, config) on thread_id: the
\* history the checkpointer holds afterwards.  When the model raises, the
\* checkpoint written for the input holds the user message.
Invoked(store, thread_id, body) ==
    [store EXCEPT ![thread_id] = store[thread_id] \o <<Message("user", <<>>, 0)>> \o body]

NoRequest == [op |-> "", supplied |-> None, used |-> None, returned |-> None,
              raised |-> FALSE, before |-> <<>>]

InitThreads ==
    /\ checkpoints = [id \in ThreadIds |-> <<>>]
    /\ cliCheckpoints = [id \in ThreadIds |-> <<>>]
    /\ cliThread = "1"
    /\ nextUuid = 2
    /\ requests = 0
    /\ lastReq = NoRequest

\* request.thread_id or str(uuid.uuid4())
ThreadIdOr(supplied) ==
    IF supplied # None /\ supplied # "" THEN supplied ELSE ToString(nextUuid)

\* POST /chat: a turn that raises ends the request with an error response
\* that carries no thread id
chat(supplied, body, raises) ==
    LET thread_id == ThreadIdOr(supplied) IN
    /\ requests < MaxRequests
    /\ (thread_id = ToString(nextUuid)) => nextUuid <= MaxUuids
    /\ checkpoints' = Invoked(checkpoints, thread_id, IF raises THEN <<>> ELSE body)
    /\ nextUuid' = IF thread_id = ToString(nextUuid) THEN nextUuid + 1 ELSE nextUuid
    /\ requests' = requests + 1
    /\ lastReq' = [op |-> "chat", supplied |-> supplied, used |-> thread_id,
                   returned |-> IF raises THEN None ELSE thread_id,
                   raised |-> raises, before |-> checkpoints[thread_id]]
    /\ UNCHANGED <<cliCheckpoints, cliThread>>
    /\ UNCHANGED exceptThreads

\* POST /chat/stream: the thread id is sent first, then the turn runs; an
\* Exception of the turn is sent as an error event
chat_stream(supplied, body, raises) ==
    LET thread_id == ThreadIdOr(supplied) IN
    /\ requests < MaxRequests
    /\ (thread_id = ToString(nextUuid)) => nextUuid <= MaxUuids
    /\ checkpoints' = Invoked(checkpoints, thread_id, IF raises THEN <<>> ELSE body)
    /\ nextUuid' = IF thread_id = ToString(nextUuid) THEN nextUuid + 1 ELSE nextUuid
    /\ requests' = requests + 1
    /\ lastReq' = [op |-> "chat_stream", supplied |-> supplied, used |-> thread_id,
                   returned |-> thread_id, raised |-> raises,
                   before |-> checkpoints[thread_id]]
    /\ UNCHANGED <<cliCheckpoints, cliThread>>
    /\ UNCHANGED exceptThreads

\* a variant of clear_thread that also empties the old thread
clear_thread_deleting(thread_id) ==
    /\ requests < MaxRequests
    /\ nextUuid <= MaxUuids
    /\ checkpoints' = [checkpoints EXCEPT ![thread_id] = <<>>]
    /\ nextUuid' = nextUuid + 1
    /\ requests' = requests + 1
    /\ lastReq' = [op |-> "clear", supplied |-> thread_id, used |-> None,
                   returned |-> ToString(nextUuid), raised |-> FALSE,
                   before |-> checkpoints[thread_id]]
    /\ UNCHANGED <<cliCheckpoints, cliThread>>
    /\ UNCHANGED exceptThreads

\* POST /clear/{thread_id}
clear_thread(thread_id) ==
    /\ requests < MaxRequests
    /\ nextUuid <= MaxUuids
    /\ nextUuid' = nextUuid + 1
    /\ requests' = requests + 1
    /\ lastReq' = [op |-> "clear", supplied |-> thread_id, used |-> None,
                   returned |-> ToString(nextUuid), raised |-> FALSE,
                   before |-> checkpoints[thread_id]]
    /\ UNCHANGED <<checkpoints, cliCheckpoints, cliThread>>
    /\ UNCHANGED exceptThreads

Chat == \E supplied \in SuppliedIds, body \in TurnBodies, raises \in BOOLEAN :
            chat(supplied, body, raises)
ChatStream == \E supplied \in SuppliedIds, body \in TurnBodies, raises \in BOOLEAN :
                  chat_stream(supplied, body, raises)
ClearThread == \E thread_id \in SuppliedIds \ {None, ""} : clear_thread(thread_id)

\* main(): the input "/clear"
CliClear ==
    /\ requests < MaxRequests
    /\ nextUuid <= MaxUuids
    /\ cliThread' = ToString(nextUuid)
    /\ nextUuid' = nextUuid + 1
    /\ requests' = requests + 1
    /\ lastReq' = [op |-> "cli_clear", supplied |-> cliThread, used |-> None,
                   returned |-> ToString(nextUuid), raised |-> FALSE,
                   before |-> cliCheckpoints[cliThread]]
    /\ UNCHANGED <<checkpoints, cliCheckpoints>>
    /\ UNCHANGED exceptThreads

\* main(): a question; an exception of the turn ends main()
CliQuestion ==
    \E body \in TurnBodies, raises \in BOOLEAN :
        /\ requests < MaxRequests
        /\ cliCheckpoints' = Invoked(cliCheckpoints, cliThread, IF raises THEN <<>> ELSE body)
        /\ requests' = IF raises THEN MaxRequests ELSE requests + 1
        /\ lastReq' = [op |-> "cli_question", supplied |-> cliThread, used |-> cliThread,
                       returned |-> None, raised |-> raises,
                       before |-> cliCheckpoints[cliThread]]
        /\ UNCHANGED <<checkpoints, cliThread, nextUuid>>
        /\ UNCHANGED exceptThreads

NextThreads ==
    \/ Chat
    \/ ChatStream
    \/ ClearThread
    \/ CliClear
    \/ CliQuestion

----------------------------------------------------------------------------
(* Repeated invocations: the tool layer with one earlier invocation kept *)

InitRepeat == probe = NoCall("")

\* keep the invocation just made
Remember ==
    /\ probe = NoCall("")
    /\ lastCall.tool \in {"execute_pandas_code", "data_quality_report"}
    /\ probe' = lastCall
    /\ UNCHANGED exceptRepeat

NextRepeat ==
    \/ SetDataframe
    \/ ExecutePandasCode
    \/ DataQualityReport
    \/ Remember

----------------------------------------------------------------------------
(* Startup: the module-level statements of src/agent.py (lines 19-22), then
   build_graph() in api.py or main.py, then the turns served *)

\* bounds: files in data/, turns served
MaxFiles == 3
MaxServed == 4

InitStartup ==
    /\ dataFiles = 0
    /\ storeUp = TRUE
    /\ phase = "importing"
    /\ loadedFile = 0
    /\ served = 0
    /\ invoked = 0

\* load_dataset() when data/ holds the given number of *.parquet files and
\* the database is up or not: glob lists the files in the order the file
\* system gives them, and [0] (first) is read
load_dataset(files, up, first) ==
    IF USE_DATABASE
    THEN IF up THEN [raised |-> "", file |-> 0]
         ELSE [raised |-> "OperationalError", file |-> 0]
    ELSE IF files = 0 THEN [raised |-> "FileNotFoundError", file |-> 0]
         ELSE [raised |-> "", file |-> first]

\* df = load_dataset(); set_dataframe(df); SCHEMA_SUMMARY = ...: an exception
\* ends the import of src.agent, and with it the process
ImportAgent ==
    \E files \in 0..MaxFiles, up \in BOOLEAN :
        \E first \in 1..(IF files = 0 THEN 1 ELSE files) :
            LET r == load_dataset(files, up, first) IN
            /\ phase = "importing"
            /\ dataFiles' = files
            /\ storeUp' = up
            /\ phase' = IF r.raised # "" THEN "failed" ELSE "loaded"
            /\ loadedFile' = r.file
            /\ UNCHANGED <<served, invoked>>
            /\ UNCHANGED exceptStart

\* agent = build_graph()
BuildGraph ==
    /\ phase = "loaded"
    /\ phase' = "serving"
    /\ UNCHANGED <<dataFiles, storeUp, loadedFile, served, invoked>>
    /\ UNCHANGED exceptStart

\* one chat turn with n tool invocations
ServeTurn ==
    \E n \in 0..MaxToolCalls :
        /\ phase = "serving"
        /\ served < MaxServed
        /\ served' = served + 1
        /\ invoked' = invoked + n
        /\ UNCHANGED <<dataFiles, storeUp, phase, loadedFile>>
        /\ UNCHANGED exceptStart

NextStartup ==
    \/ ImportAgent
    \/ BuildGraph
    \/ ServeTurn

----------------------------------------------------------------------------
(* The tools as functions of their inputs: one application at a time, on
   inputs drawn from bounded sets *)

InitFunctions == applied = [fn |-> "", input |-> <<>>, out |-> <<>>]

\* no function has been applied yet
Idle == applied.fn = ""

Applied(fn, input, out) == [fn |-> fn, input |-> input, out |-> out]

\* what get_dataframe() returns once the table id is loaded
Loaded(id) ==
    [ret |-> id, raised |-> "", cache |-> _cached_df, heap |-> heap, queried |-> FALSE]

\* execute_sql_query on an accepted query whose result has M rows
SqlRowCounts == 0..(SqlMaxRows + MaxExtraRows)
ApplySql ==
    /\ Idle
    /\ USE_DATABASE
    /\ \E query \in {QCount, QLower}, M \in SqlRowCounts :
          applied' = Applied("execute_sql_query", [query |-> query, M |-> M],
                             execute_sql_query(query, [raised |-> FALSE, rows |-> M]))
    /\ UNCHANGED exceptFunctions

\* execute_pandas_code on code that builds a result of n rows
ApplyPandas ==
    /\ Idle
    /\ ~USE_DATABASE
    /\ \E n \in ResultSizes : \E code \in {FrameCode(n), SeriesCode(n)} :
          applied' = Applied("execute_pandas_code",
                             [code |-> code, n |-> n, frame |-> code = FrameCode(n)],
                             execute_pandas_code(Loaded(FileId), code))
    /\ UNCHANGED exceptFunctions

\* bounds of the tables the analyses are applied to
MaxRows == 3
MaxClusters == 2

\* what get_dataframe() returns in local mode once the table t is loaded
LoadedTable(t) ==
    [ret |-> FileId, raised |-> "", cache |-> _cached_df,
     heap |-> [heap EXCEPT ![FileId] = t], queried |-> FALSE]

\* all sequences over S of length at most n
SeqsUpTo(S, n) == UNION {[1..k -> S] : k \in 0..n}

\* a table of three columns, two of them numeric, built from rows
PipelineTable(rows) ==
    Table(<<"pipeline_name", "total_scheduled_quantity", "design_capacity">>,
          [c \in {"pipeline_name", "total_scheduled_quantity", "design_capacity"} |->
              IF c = "pipeline_name" THEN "obj" ELSE "num"],
          rows)

PipelineRow(name, quantity, capacity) ==
    [pipeline_name |-> name, total_scheduled_quantity |-> quantity,
     design_capacity |-> capacity]

\* rows with and without missing values
ClusterRows ==
    { PipelineRow(<<"A">>, <<1>>, <<5>>),
      PipelineRow(<<"A">>, NullCell, <<5>>),
      PipelineRow(<<"A">>, <<1>>, NullCell) }

ClusterColumns ==
    { <<>>,
      <<"total_scheduled_quantity">>,
      <<"design_capacity">>,
      <<"total_scheduled_quantity", "design_capacity">>,
      <<"total_scheduled_quantity", "nonexistent", "pipeline_name">>,
      <<"pipeline_name", "nonexistent">> }

\* cluster_analysis on a table, with every sample and every labelling the
\* libraries may produce
ApplyCluster ==
    /\ Idle
    /\ ~USE_DATABASE
    /\ \E rows \in SeqsUpTo(ClusterRows, MaxRows), columns \in ClusterColumns,
          n_clusters \in 0..MaxClusters, sample_size \in 0..MaxRows,
          include_interpretation \in BOOLEAN :
          LET t == PipelineTable(rows)
              valid == \A c \in Range(columns) : c \in NumericCols(t)
              n_clean == IF valid THEN Len(DropNa(rows, columns)) ELSE 0
              n_used == IF n_clean > sample_size THEN sample_size ELSE n_clean
              runs == valid /\ ClusteringRaises(n_used, Len(columns), n_clusters) = ""
          IN
          \E sample \in IF valid /\ n_clean > sample_size
                        THEN {S \in SUBSET (1..n_clean) : Cardinality(S) = sample_size}
                        ELSE {{}} :
          \E clusters \in IF runs THEN [1..n_used -> 0..(n_clusters - 1)]
                          ELSE {<<>>} :
              applied' = Applied("cluster_analysis",
                                 [rows |-> rows, columns |-> columns,
                                  n_clusters |-> n_clusters,
                                  sample_size |-> sample_size],
                                 cluster_analysis(LoadedTable(t), columns, n_clusters,
                                                  sample_size, include_interpretation,
                                                  sample, clusters, ""))
    /\ UNCHANGED exceptFunctions

\* the values of a numeric column over three rows
Patterns ==
    { <<<<1>>, <<2>>, <<3>>>>,
      <<<<1>>, <<3>>, <<2>>>>,
      <<<<3>>, <<1>>, <<2>>>>,
      <<<<2>>, <<2>>, <<2>>>>,
      <<<<1>>, NullCell, <<3>>>> }

\* bound: the number of columns whose patterns are chosen freely
MaxFreeCols == 3

\* the least number of columns with more than TopPairs pairs
WideCols == CHOOSE n \in 1..TopPairs :
                n * (n - 1) > 2 * TopPairs /\ (n - 1) * (n - 2) <= 2 * TopPairs

NumericName(i) == "n" \o ToString(i)

\* a table of an object column and one numeric column per pattern
PatternTable(patterns) ==
    LET names == [i \in 1..Len(patterns) |-> NumericName(i)]
        Index(c) == CHOOSE i \in 1..Len(patterns) : names[i] = c
        all == Range(names) \cup {"pipeline_name"}
    IN Table(<<"pipeline_name">> \o names,
             [c \in all |-> IF c = "pipeline_name" THEN "obj" ELSE "num"],
             [r \in 1..3 |->
                 [c \in all |-> IF c = "pipeline_name" THEN <<"A">>
                                ELSE patterns[Index(c)][r]]])

\* the patterns repeated in turn over WideCols columns
Wide(patterns) ==
    [i \in 1..WideCols |-> patterns[((i - 1) % Len(patterns)) + 1]]

CorrelationTables ==
    {PatternTable(ps) : ps \in SeqsUpTo(Patterns, MaxFreeCols)}
    \cup {PatternTable(Wide(ps)) : ps \in SeqsUpTo(Patterns, MaxFreeCols) \ {<<>>}}

CorrelationColumns ==
    { <<>>,
      <<"n2", "n1">>,
      <<"n1", "pipeline_name", "n3", "nonexistent", "n2">>,
      <<"n1", "n1", "n2">>,
      <<"n3">> }

ApplyCorrelations ==
    /\ Idle
    /\ ~USE_DATABASE
    /\ \E t \in CorrelationTables, columns \in CorrelationColumns :
          applied' = Applied("find_correlations", [table |-> t, columns |-> columns],
                             find_correlations(LoadedTable(t), columns, ""))
    /\ UNCHANGED exceptFunctions

\* bound: the length of the columns whose cells are chosen freely
MaxFreeRows == 5

\* a table with one numeric column
ColumnTable(cells) ==
    Table(<<"total_scheduled_quantity">>,
          [c \in {"total_scheduled_quantity"} |-> "num"],
          [i \in 1..Len(cells) |-> [total_scheduled_quantity |-> cells[i]]])

\* columns of freely chosen cells, and long runs of a value followed by a few
\* larger ones
OutlierColumns ==
    SeqsUpTo({NullCell, <<0>>, <<2>>, <<4>>, <<7>>}, MaxFreeRows)
    \cup {Rep(<<0>>, k) \o Rep(<<1>>, m) : k \in {10, 34}, m \in 0..(SampleValues + 1)}

ApplyOutliers ==
    /\ Idle
    /\ ~USE_DATABASE
    /\ \E cells \in OutlierColumns, method \in {"iqr", "zscore"} :
          applied' = Applied("detect_outliers", [cells |-> cells, method |-> method],
                             detect_outliers(LoadedTable(ColumnTable(cells)),
                                             "total_scheduled_quantity", method, ""))
    /\ UNCHANGED exceptFunctions

\* a table of flagged rows, whose quantity is value, followed by other rows
QualityTable(value, capacity, flagged, others) ==
    PipelineTable(Rep(PipelineRow(<<"A">>, <<value>>, <<capacity>>), flagged)
                  \o Rep(PipelineRow(<<"B">>, <<8>>, <<5>>), others))

\* the sentinels and a value that is none
QualityValues == Range(sentinel_values) \cup {7}

\* the numbers of rows around the two thresholds: 100 and 101 flagged rows,
\* which are all rows, or 1%, or just more than 1% of them
FlaggedCounts == {SignificantRows, SignificantRows + 1}
TotalCounts(flagged) ==
    {flagged, 100 * (SignificantRows + 1) - 1, 100 * (SignificantRows + 1)}

\* data_quality_report on a table; the observation keeps the text only
ApplyQuality ==
    /\ Idle
    /\ ~USE_DATABASE
    /\ \E value \in QualityValues, capacity \in {5, 0}, flagged \in FlaggedCounts :
       \E total \in TotalCounts(flagged) :
          applied' = Applied("data_quality_report",
                             [value |-> value, capacity |-> capacity,
                              flagged |-> flagged, total |-> total],
                             [text |-> data_quality_report(
                                           LoadedTable(QualityTable(value, capacity, flagged,
                                                                    total - flagged)),
                                           "").text])
    /\ UNCHANGED exceptFunctions

\* six pipelines and their quantities, the sums of which are all different
PipelineNames == <<"A", "B", "C", "D", "E", "F">>
PipelineQuantity ==
    [name \in Range(PipelineNames) |->
        CASE name = "A" -> 243 [] name = "B" -> 81 [] name = "C" -> 27
          [] name = "D" -> 9 [] name = "E" -> 3 [] OTHER -> 1]

\* a table with one row on day 1 for the pipelines of early and one row on
\* day 3 for those of late
DatedRows(names, day) ==
    LET present == SelectSeq(PipelineNames, LAMBDA name : name \in names)
    IN [k \in 1..Len(present) |->
           [pipeline_name |-> <<present[k]>>,
            total_scheduled_quantity |-> <<PipelineQuantity[present[k]]>>,
            gas_day |-> <<day>>]]
DatedTable(early, late) ==
    Table(<<"pipeline_name", "total_scheduled_quantity", "gas_day">>,
          [c \in {"pipeline_name", "total_scheduled_quantity", "gas_day"} |->
              IF c = "pipeline_name" THEN "obj"
              ELSE IF c = "gas_day" THEN "dt" ELSE "num"],
          DatedRows(early, 1) \o DatedRows(late, 3))

\* the same rows in a table without the column gas_day
UndatedTable(names) ==
    LET dated == DatedTable(names, {})
    IN Table(<<"pipeline_name", "total_scheduled_quantity">>,
             [c \in {"pipeline_name", "total_scheduled_quantity"} |-> dated.dtype[c]],
             [k \in 1..Len(dated.rows) |->
                 [c \in {"pipeline_name", "total_scheduled_quantity"} |-> dated.rows[k][c]]])

\* the test types: those of the docstring, and one that names no check
TestTypes == {"temporal", "sample", "outliers", "all", "none"}

\* the samples: five times the first half of the rows, or the last
SampleChoices(n) ==
    { [i \in 1..n_samples |-> 1..HalfOf(n)],
      [i \in 1..n_samples |-> (n - HalfOf(n) + 1)..n] }

ApplyRobustness ==
    /\ Idle
    /\ ~USE_DATABASE
    /\ \E early \in SUBSET Range(PipelineNames), late \in SUBSET Range(PipelineNames),
          test_type \in TestTypes, dated \in BOOLEAN :
       \E samples \in IF test_type = "all"
                      THEN SampleChoices(Cardinality(early) + Cardinality(late))
                      ELSE {[i \in 1..n_samples |->
                                1..HalfOf(Cardinality(early) + Cardinality(late))]} :
          /\ (dated /\ test_type \in {"temporal", "all"}) \/ late = {}
          /\ applied' = Applied("robustness_check",
                             [early |-> early, late |-> late, test_type |-> test_type,
                              dated |-> dated],
                             [text |-> robustness_check(
                                           LoadedTable(IF dated THEN DatedTable(early, late)
                                                       ELSE UndatedTable(early)),
                                           "total_scheduled_quantity", "pipeline_name",
                                           test_type, samples, "").text])
    /\ UNCHANGED exceptFunctions

\* the rows of one stratum: n rows of a region, the scheduled quantity going
\* 1, 0, 1, .. and the capacity with it ("up"), against it ("down"), with it
\* but for the first row ("mixed"), or the quantity staying 1 ("flat")
StratumKinds == {"up", "down", "mixed", "flat"}
StratumSizes == {0, MinStratum - 1, MinStratum, MinStratum + 1}
StratumRows(region, number, stratum) ==
    [i \in 1..stratum.n |->
        [region |-> <<region>>,
         operating_capacity |-> <<number>>,
         total_scheduled_quantity |-> <<IF stratum.kind = "flat" THEN 1 ELSE i % 2>>,
         design_capacity |->
            <<IF stratum.kind = "down" \/ (stratum.kind = "mixed" /\ i = 1)
              THEN 1 - (i % 2) ELSE i % 2>>]]

\* a table of the strata X and Y; with four levels of capacity the strata
\* come twice, as W and Z
StratumTable(x, y, levels) ==
    Table(<<"region", "operating_capacity", "total_scheduled_quantity", "design_capacity">>,
          [c \in {"region", "operating_capacity", "total_scheduled_quantity",
                  "design_capacity"} |-> IF c = "region" THEN "obj" ELSE "num"],
          StratumRows("X", 1, x) \o StratumRows("Y", 2, y)
          \o (IF levels = 4 THEN StratumRows("W", 3, x) \o StratumRows("Z", 4, y)
              ELSE <<>>))

ApplyConfounders ==
    /\ Idle
    /\ ~USE_DATABASE
    /\ \E x \in [n : StratumSizes, kind : StratumKinds],
          y \in [n : StratumSizes, kind : StratumKinds],
          confounder \in {"region", "operating_capacity"} :
          applied' = Applied("check_confounders",
                             [x |-> x, y |-> y, confounder |-> confounder],
                             [text |-> check_confounders(
                                           LoadedTable(StratumTable(x, y,
                                               IF confounder = "region" THEN 2 ELSE 4)),
                                           "design_capacity", "total_scheduled_quantity",
                                           <<confounder>>, "").text])
    /\ UNCHANGED exceptFunctions

\* the cell of a row with an issue: a placeholder, a negative quantity or
\* no quantity
Issues == {"placeholder", "negative", "null"}
IssueCell(issue) ==
    IF issue = "placeholder" THEN <<compare_sentinels[2]>>
    ELSE IF issue = "negative" THEN <<0 - 300>>
    ELSE NullCell

\* a table with a row for each pipeline of present and a second row, with
\* the issue, for each pipeline of flagged
IssueTable(present, flagged, issue) ==
    LET names == SelectSeq(PipelineNames, LAMBDA name : name \in present)
        second == SelectSeq(PipelineNames, LAMBDA name : name \in flagged)
    IN Table(<<"pipeline_name", "total_scheduled_quantity">>,
             [c \in {"pipeline_name", "total_scheduled_quantity"} |->
                 IF c = "pipeline_name" THEN "obj" ELSE "num"],
             [k \in 1..Len(names) |->
                 [pipeline_name |-> <<names[k]>>,
                  total_scheduled_quantity |-> <<PipelineQuantity[names[k]]>>]]
             \o [k \in 1..Len(second) |->
                 [pipeline_name |-> <<second[k]>>,
                  total_scheduled_quantity |-> IssueCell(issue)]])

\* sum and mean: the values of the groups of these tables differ, so that
\* their order is determined
ApplyCompare ==
    /\ Idle
    /\ ~USE_DATABASE
    /\ \E present \in SUBSET Range(PipelineNames), issue \in Issues,
          agg_func \in {"sum", "mean"}, group_column \in {None, "pipeline_name"} :
       \E flagged \in SUBSET present :
          applied' = Applied("compare_with_without_issues",
                             [present |-> present, flagged |-> flagged, issue |-> issue,
                              agg_func |-> agg_func, group_column |-> group_column],
                             [text |-> compare_with_without_issues(
                                           LoadedTable(IssueTable(present, flagged, issue)),
                                           "total_scheduled_quantity", group_column,
                                           agg_func, "").text])
    /\ UNCHANGED exceptFunctions

\* the findings a table is given, at most MaxFindings at a time: those the
\* report records as an issue or a concern
RecordedFindings ==
    {"missing_many", "operating", "placeholder_many", "negative_many", "longitude_positive"}
\* and those below its thresholds or without one
ListedFindings ==
    {"missing_some", "placeholder_few", "negative_few", "available", "latitude",
     "longitude", "posting", "duplicate", "key_duplicate"}
MaxFindings == 1
FindingSets ==
    {F \in SUBSET (RecordedFindings \cup ListedFindings) : Cardinality(F) <= MaxFindings}

\* the rows of these tables: 100 for each row that makes a placeholder
\* significant, so that 101 rows are 1% of them
FindingRows == 100 * (SignificantRows + 1)

\* row i of a table with the findings F: a tenth or three tenths of the names
\* missing; the quantity 0 in 101 or 102 rows (1%, or more); a negative
\* quantity in 1 or 11 rows (0.1%, or more); one row each of an operating
\* capacity above the design capacity, an available above the operating
\* capacity, a latitude of 95, a longitude of 200 and a posting after the gas
\* day; 1001 rows of longitude 10; the last row a copy of the one before it;
\* a row with the key of the one before it
FindingRow(F, i) ==
    LET n == FindingRows IN
    [pipeline_name |->
        IF \/ "missing_many" \in F /\ 10 * i <= 3 * n
           \/ "missing_some" \in F /\ 10 * i <= n
        THEN NullCell ELSE <<"A">>,
     total_scheduled_quantity |->
        IF \/ "placeholder_many" \in F /\ i <= SignificantRows + 2
           \/ "placeholder_few" \in F /\ i <= SignificantRows + 1
        THEN <<0>>
        ELSE IF \/ "negative_many" \in F /\ i > 2 * SignificantRows
                   /\ i <= 2 * SignificantRows + (n \div 1000) + 1
                \/ "negative_few" \in F /\ i = 2 * SignificantRows + 1
        THEN <<0 - 5>> ELSE <<8>>,
     design_capacity |-> IF "key_duplicate" \in F /\ i = n - 2 THEN <<6>> ELSE <<5>>,
     operating_capacity |->
        IF "operating" \in F /\ i = 3 * SignificantRows + 1 THEN <<7>> ELSE <<4>>,
     operationally_available_capacity |->
        IF "available" \in F /\ i = 3 * SignificantRows + 2 THEN <<5>> ELSE <<3>>,
     location_latitude |->
        IF "latitude" \in F /\ i = 3 * SignificantRows + 3 THEN <<95>> ELSE <<30>>,
     location_longitude |->
        IF "longitude" \in F /\ i = 3 * SignificantRows + 4 THEN <<200>>
        ELSE IF "longitude_positive" \in F /\ i > 4 * SignificantRows
                /\ i <= 4 * SignificantRows + PositiveLongitudeRows + 1
        THEN <<10>> ELSE <<0 - 100>>,
     gas_day |-> <<2>>,
     posting_dt |-> IF "posting" \in F /\ i = 3 * SignificantRows + 5 THEN <<3>> ELSE <<1>>,
     smx_location_id |->
        IF "duplicate" \in F /\ i = n THEN <<n - 1>>
        ELSE IF "key_duplicate" \in F /\ i = n - 2 THEN <<n - 3>> ELSE <<i>>,
     cycle_desc |-> <<"c">>]

FindingColumns ==
    <<"pipeline_name", "total_scheduled_quantity", "design_capacity", "operating_capacity",
      "operationally_available_capacity", "location_latitude", "location_longitude",
      "gas_day", "posting_dt", "smx_location_id", "cycle_desc">>
FindingTable(F) ==
    Table(FindingColumns,
          [c \in Range(FindingColumns) |->
              IF c \in {"pipeline_name", "cycle_desc"} THEN "obj"
              ELSE IF c \in {"gas_day", "posting_dt"} THEN "dt" ELSE "num"],
          <<>> \o [i \in 1..FindingRows |-> FindingRow(F, i)])

\* data_quality_report on a table with findings
ApplyFindings ==
    /\ Idle
    /\ ~USE_DATABASE
    /\ \E F \in FindingSets :
          applied' = Applied("data_quality_report", [findings |-> F],
                             [text |-> data_quality_report(LoadedTable(FindingTable(F)),
                                                           "").text])
    /\ UNCHANGED exceptFunctions

\* the rows of a series: a date, written as a string, or a string that is
\* no date, and a value or none
MaxSeriesRows == 3
SeriesCells ==
    [gas_day : {<<d>> : d \in Range(DateStrings) \cup {"n/a"}},
     total_scheduled_quantity : {<<1>>, <<3>>, NullCell}]
SeriesTable(rows) ==
    Table(<<"gas_day", "total_scheduled_quantity">>,
          [c \in {"gas_day", "total_scheduled_quantity"} |->
              IF c = "gas_day" THEN "obj" ELSE "num"],
          rows)

ApplySeries ==
    /\ Idle
    /\ ~USE_DATABASE
    /\ \E rows \in SeqsUpTo(SeriesCells, MaxSeriesRows), freq \in {"D", "W", "M"} :
          applied' = Applied("analyze_time_series", [rows |-> rows, freq |-> freq],
                             [text |-> analyze_time_series(LoadedTable(SeriesTable(rows)),
                                                           "gas_day",
                                                           "total_scheduled_quantity",
                                                           freq, "").text])
    /\ UNCHANGED exceptFunctions

\* the queries the keyword scan is applied to: a SELECT list of up to
\* MaxItems items of SelectItems over pipeline_data; words are the
\* forbidden words an item was written with: created_dt, 'insert', updated,
\* deleted, DROP, alternate, 'Truncate', gas_day, pipeline_name
MaxItems == 2
SelectItems ==
    << [name |-> "created_dt", chars |-> <<"c", "r", "e", "a", "t", "e", "d", "_", "d", "t">>, words |-> {"CREATE"}],
       [name |-> "insert", chars |-> <<"'", "i", "n", "s", "e", "r", "t", "'">>, words |-> {"INSERT"}],
       [name |-> "updated", chars |-> <<"u", "p", "d", "a", "t", "e", "d">>, words |-> {"UPDATE"}],
       [name |-> "deleted", chars |-> <<"d", "e", "l", "e", "t", "e", "d">>, words |-> {"DELETE"}],
       [name |-> "DROP", chars |-> <<"D", "R", "O", "P">>, words |-> {"DROP"}],
       [name |-> "alternate", chars |-> <<"a", "l", "t", "e", "r", "n", "a", "t", "e">>, words |-> {"ALTER"}],
       [name |-> "Truncate", chars |-> <<"'", "T", "r", "u", "n", "c", "a", "t", "e", "'">>, words |-> {"TRUNCATE"}],
       [name |-> "gas_day", chars |-> <<"g", "a", "s", "_", "d", "a", "y">>, words |-> {}],
       [name |-> "pipeline_name", chars |-> <<"p", "i", "p", "e", "l", "i", "n", "e", "_", "n", "a", "m", "e">>, words |-> {}] >>
LeadIns == {<<"S", "E", "L", "E", "C", "T", " ">>, <<" ", "s", "e", "l", "e", "c", "t", " ">>}
FromClause == <<" ", "F", "R", "O", "M", " ", "p", "i", "p", "e", "l", "i", "n", "e", "_", "d", "a", "t", "a">>
Separator == <<",", " ">>
RECURSIVE Joined(_)
Joined(items) == IF Len(items) = 1 THEN items[1].chars ELSE items[1].chars \o Separator \o Joined(Tail(items))
GuardQuery(lead, items) == lead \o Joined(items) \o FromClause

\* execute_sql_query in database mode on a query written from SelectItems
ApplyGuard ==
    /\ Idle
    /\ USE_DATABASE
    /\ \E lead \in LeadIns, n \in 1..MaxItems :
          \E pick \in [1..n -> 1..Len(SelectItems)] :
              LET items == [j \in 1..n |-> SelectItems[pick[j]]]
                  query == GuardQuery(lead, items)
              IN applied' = Applied("execute_sql_query", [query |-> query, M |-> 1, items |-> items], execute_sql_query(query, [raised |-> FALSE, rows |-> 1]))
    /\ UNCHANGED exceptFunctions

NextGuard == ApplyGuard

\* the applications of the validation, comparison and time series tools
NextReports ==
    \/ ApplySeries
    \/ ApplyConfounders
    \/ ApplyCompare
    \/ ApplyFindings

NextFunctions ==
    \/ ApplySql
    \/ ApplyPandas
    \/ ApplyCluster
    \/ ApplyCorrelations
    \/ ApplyOutliers
    \/ ApplyQuality
    \/ ApplyRobustness

----------------------------------------------------------------------------
(* src/database.py: the connection pool and the bulk load *)

pool_size == 5
max_overflow == 10
default_chunk_size == 500000
batch_size == 50000

\* QueuePool(pool_size, max_overflow): the connections that may be checked
\* out of the pool at one time; a checkout beyond it raises TimeoutError
PoolLimit == pool_size + max_overflow
CanCheckout(n) == n < PoolLimit

\* the operations that hold one connection in a with block, or let
\* pd.read_sql hold it, and release it on leaving however they leave
ScopedOps == {"init_database", "get_table_info", "execute_query", "get_dataframe_from_db"}
LOAD == "load_parquet_to_db"

\* the files read: their row counts
FileRows == {0, batch_size, 2 * batch_size + 1}
\* the chunk_size arguments passed
ChunkSizes == {batch_size \div 2, batch_size + 1, default_chunk_size}

\* a variant of Chunk: the slice is not clipped at the end of the file
ChunkUnclipped(i, size, total_rows) == [lo |-> i, hi |-> i + size]
\* df.iloc[i : i + size]: the file's rows lo .. hi - 1
Chunk(i, size, total_rows) == [lo |-> i, hi |-> Min(i + size, total_rows)]

\* SELECT COUNT(*) FROM pipeline_data
RowsOf(table) == SumOver([j \in 1..Len(table) |-> table[j].hi - table[j].lo], 1..Len(table))

\* if existing_rows > 0: ... return
AlreadyLoaded(existing_rows) == existing_rows > 0

\* raw_conn.commit(): the rows copied in the open transaction join the table
Commit(table, copied) == table \o copied
\* a variant of Rollback: the rows of the earlier chunks are dropped as well
RollbackAll(table, copied) == <<>>
\* raw_conn.rollback(): the rows copied in the open transaction are dropped
Rollback(table, copied) == table

\* the n-th pass of for i in range(0, total_rows, size)
PassOf(i, size) == i \div size + 1

NoOp == [op |-> "", pc |-> "", i |-> 0, total_rows |-> 0, chunk_size |-> 0, use_copy |-> FALSE, existing |-> 0, before |-> <<>>, earlier |-> 0]

\* what the caller of a finished operation has seen
Ended(d, outcome, at, k, after) == [op |-> d.op, outcome |-> outcome, at |-> at, k |-> k, total_rows |-> d.total_rows, chunk_size |-> d.chunk_size, use_copy |-> d.use_copy, existing |-> d.existing, before |-> d.before, after |-> after, earlier |-> d.earlier]

InitStore ==
    /\ pipeline_data = <<>>
    /\ created = FALSE
    /\ live = 0
    /\ leaked = 0
    /\ db = NoOp
    /\ lastOp = Ended(NoOp, "", "", 0, <<>>)
    /\ rolled_back = 0

\* with engine.connect() as conn, and pd.read_sql(query, engine): entering
Connect ==
    \E op \in ScopedOps :
        /\ db.op = ""
        /\ IF CanCheckout(live)
           THEN /\ live' = live + 1
                /\ db' = [NoOp EXCEPT !.op = op, !.pc = "connected"]
                /\ UNCHANGED lastOp
           ELSE /\ lastOp' = Ended([NoOp EXCEPT !.op = op], "raised", "connect", 0, <<>>)
                /\ UNCHANGED <<live, db>>
        /\ UNCHANGED <<pipeline_data, created, leaked, rolled_back, exceptStore>>

\* leaving the with block, by its end or by an exception; init_database has
\* created the table when it is left by its end, and the other three raise
\* while the table is missing
Release ==
    \E exc \in BOOLEAN :
        /\ db.op \in ScopedOps
        /\ db.pc = "connected"
        /\ exc \/ created \/ db.op = "init_database"
        /\ live' = live - 1
        /\ created' = (created \/ (db.op = "init_database" /\ ~exc))
        /\ db' = NoOp
        /\ lastOp' = Ended(db, IF exc THEN "raised" ELSE "returned", IF exc THEN "execute" ELSE "", 0, <<>>)
        /\ UNCHANGED <<pipeline_data, leaked, rolled_back, exceptStore>>

\* load_parquet_to_db(parquet_path, use_copy, chunk_size) up to
\* with engine.connect() as conn; the fallback path does not read chunk_size,
\* which is left at its default there
LoadParquetToDb ==
    \E total_rows \in FileRows, chunk_size \in ChunkSizes, use_copy \in BOOLEAN :
        LET d0 == [NoOp EXCEPT !.op = LOAD, !.pc = "counting", !.total_rows = total_rows, !.chunk_size = chunk_size, !.use_copy = use_copy, !.before = pipeline_data, !.earlier = rolled_back]
            d == IF use_copy THEN d0 ELSE [d0 EXCEPT !.chunk_size = default_chunk_size]
        IN /\ db.op = ""
           /\ IF CanCheckout(live)
              THEN /\ live' = live + 1
                   /\ db' = d
                   /\ UNCHANGED lastOp
              ELSE /\ lastOp' = Ended(d, "raised", "connect", 0, pipeline_data)
                   /\ UNCHANGED <<live, db>>
           /\ UNCHANGED <<pipeline_data, created, leaked, rolled_back, exceptStore>>

\* the existence check: SELECT COUNT(*), the early return, the end of the
\* with block
CountExisting ==
    \E exc \in BOOLEAN :
        /\ db.op = LOAD
        /\ db.pc = "counting"
        /\ live' = live - 1
        /\ IF exc \/ ~created
           THEN /\ db' = NoOp
                /\ lastOp' = Ended(db, "raised", "execute", 0, pipeline_data)
           ELSE LET d == [db EXCEPT !.existing = RowsOf(pipeline_data)]
                IN IF AlreadyLoaded(d.existing)
                   THEN /\ db' = NoOp
                        /\ lastOp' = Ended(d, "skipped", "", 0, pipeline_data)
                   ELSE /\ db' = [d EXCEPT !.pc = "loop"]
                        /\ UNCHANGED lastOp
        /\ UNCHANGED <<pipeline_data, created, leaked, rolled_back, exceptStore>>

\* the COPY loop: raw_conn = engine.raw_connection()
RawConnection ==
    \E exc \in BOOLEAN :
        /\ db.op = LOAD
        /\ db.pc = "loop"
        /\ db.use_copy
        /\ db.i < db.total_rows
        /\ IF CanCheckout(live) /\ ~exc
           THEN /\ live' = live + 1
                /\ db' = [db EXCEPT !.pc = "cursor"]
                /\ UNCHANGED lastOp
           ELSE /\ db' = NoOp
                /\ lastOp' = Ended(db, "raised", "raw_connection", PassOf(db.i, db.chunk_size), pipeline_data)
                /\ UNCHANGED live
        /\ UNCHANGED <<pipeline_data, created, leaked, rolled_back, exceptStore>>

\* cursor = raw_conn.cursor(), before the try statement: when it raises, no
\* handler closes raw_conn
Cursor ==
    \E exc \in BOOLEAN :
        /\ db.op = LOAD
        /\ db.pc = "cursor"
        /\ IF exc
           THEN /\ leaked' = leaked + 1
                /\ db' = NoOp
                /\ lastOp' = Ended(db, "raised", "cursor", PassOf(db.i, db.chunk_size), pipeline_data)
           ELSE /\ db' = [db EXCEPT !.pc = "copying"]
                /\ UNCHANGED <<leaked, lastOp>>
        /\ UNCHANGED <<pipeline_data, created, live, rolled_back, exceptStore>>

\* the try statement of one chunk: copy_expert and commit, or rollback and
\* raise; then cursor.close() and raw_conn.close(), the second of which is
\* not reached when the first raises
CopyChunk ==
    \E exc \in {"", "copy_expert", "commit"}, close_exc \in BOOLEAN :
        LET copied == <<Chunk(db.i, db.chunk_size, db.total_rows)>>
            k == PassOf(db.i, db.chunk_size)
            table == IF exc = "" THEN Commit(pipeline_data, copied) ELSE Rollback(pipeline_data, copied)
        IN /\ db.op = LOAD
           /\ db.pc = "copying"
           /\ pipeline_data' = table
           /\ rolled_back' = IF exc = "" THEN rolled_back ELSE k
           /\ IF close_exc
              THEN /\ leaked' = leaked + 1
                   /\ UNCHANGED live
              ELSE /\ live' = live - 1
                   /\ UNCHANGED leaked
           /\ IF exc = "" /\ ~close_exc
              THEN /\ db' = [db EXCEPT !.pc = "loop", !.i = db.i + db.chunk_size]
                   /\ UNCHANGED lastOp
              ELSE /\ db' = NoOp
                   /\ lastOp' = Ended(db, "raised", IF close_exc THEN "cursor.close" ELSE exc, k, table)
           /\ UNCHANGED <<created, exceptStore>>

\* the fallback loop: batch.to_sql("pipeline_data", engine, ...) checks a
\* connection out
ToSqlConnect ==
    \E exc \in BOOLEAN :
        /\ db.op = LOAD
        /\ db.pc = "loop"
        /\ ~db.use_copy
        /\ db.i < db.total_rows
        /\ IF CanCheckout(live) /\ ~exc
           THEN /\ live' = live + 1
                /\ db' = [db EXCEPT !.pc = "to_sql"]
                /\ UNCHANGED lastOp
           ELSE /\ db' = NoOp
                /\ lastOp' = Ended(db, "raised", "connect", PassOf(db.i, batch_size), pipeline_data)
                /\ UNCHANGED live
        /\ UNCHANGED <<pipeline_data, created, leaked, rolled_back, exceptStore>>

\* to_sql inserts the batch in a transaction of its own and gives the
\* connection back, whether the insert raised or not
ToSqlInsert ==
    \E exc \in BOOLEAN :
        LET copied == <<Chunk(db.i, batch_size, db.total_rows)>>
            table == IF exc THEN Rollback(pipeline_data, copied) ELSE Commit(pipeline_data, copied)
        IN /\ db.op = LOAD
           /\ db.pc = "to_sql"
           /\ pipeline_data' = table
           /\ live' = live - 1
           /\ IF exc
              THEN /\ db' = NoOp
                   /\ lastOp' = Ended(db, "raised", "to_sql", PassOf(db.i, batch_size), table)
              ELSE /\ db' = [db EXCEPT !.pc = "loop", !.i = db.i + batch_size]
                   /\ UNCHANGED lastOp
           /\ UNCHANGED <<created, leaked, rolled_back, exceptStore>>

\* the end of either loop
LoadFinished ==
    /\ db.op = LOAD
    /\ db.pc = "loop"
    /\ db.i >= db.total_rows
    /\ db' = NoOp
    /\ lastOp' = Ended(db, "loaded", "", 0, pipeline_data)
    /\ UNCHANGED <<pipeline_data, created, live, leaked, rolled_back, exceptStore>>

\* the pool takes back a connection whose proxy was dropped without close(),
\* when the garbage collector finalises the proxy; the code does not decide
\* when
Finalize ==
    /\ leaked > 0
    /\ leaked' = leaked - 1
    /\ live' = live - 1
    /\ UNCHANGED <<pipeline_data, created, db, lastOp, rolled_back, exceptStore>>

NextStore ==
    \/ Connect
    \/ Release
    \/ LoadParquetToDb
    \/ CountExisting
    \/ RawConnection
    \/ Cursor
    \/ CopyChunk
    \/ ToSqlConnect
    \/ ToSqlInsert
    \/ LoadFinished
    \/ Finalize

----------------------------------------------------------------------------
(* Specifications *)

Init == InitTools /\ InitSchema /\ InitConc /\ InitAgent /\ InitThreads
        /\ InitRepeat /\ InitStartup /\ InitFunctions /\ InitStore

\* the sequential tool layer
Spec == Init /\ [][NextTools]_vars

\* the schema summary
SpecSchema == Init /\ [][NextSchema]_vars

\* get_dataframe() under concurrent callers, in database mode
InitDatabaseMode == Init /\ USE_DATABASE = TRUE
SpecConc == InitDatabaseMode /\ [][NextConc]_vars

\* the tool layer with an earlier invocation kept
SpecRepeat == Init /\ [][NextRepeat]_vars

\* startup and the turns served after it
SpecStartup == Init /\ [][NextStartup]_vars

\* the tools as functions
SpecFunctions == Init /\ [][NextFunctions]_vars
SpecReports == Init /\ [][NextReports]_vars

\* the keyword scan of execute_sql_query, in database mode
SpecGuard == InitDatabaseMode /\ [][NextGuard]_vars

\* the database operations, one caller at a time
SpecStore == InitDatabaseMode /\ [][NextStore]_vars

\* the conversation threads
SpecThreads == Init /\ [][NextThreads]_vars

\* the orchestration graph; a node that is entered runs to completion
SpecAgent ==
    Init /\ [][NextAgent]_vars /\ WF_vars(ShouldContinue) /\ WF_vars(ToolsNode)

----------------------------------------------------------------------------
(* Properties of the tool layer, under Spec *)

\* the tools that take column names, and the tools that read the dataset
ColumnTools ==
    { "get_column_stats", "find_correlations", "detect_outliers",
      "analyze_time_series", "find_patterns", "cluster_analysis", "find_segments",
      "compare_with_without_issues", "check_confounders", "robustness_check" }
DatasetTools == ColumnTools \cup {"execute_pandas_code", "data_quality_report"}

\* C1: no tool invocation mutates the shared dataset: every table that
\* get_dataframe() has returned still has the columns and the rows it had when
\* it was first returned.
C1_DatasetNeverMutated ==
    \A id \in DOMAIN resolved :
        /\ heap[id].columns = resolved[id].columns
        /\ heap[id].rows = resolved[id].rows

\* C2: an exception raised inside a tool is never propagated to the caller:
\* the invocation returns a text that begins with "Error:".
C2_ExceptionsReturnErrorText ==
    lastCall.exc # "" =>
        /\ lastCall.raised = ""
        /\ StartsWith(lastCall.text, <<"Error:">>)

\* C3: a column tool invoked with a column argument that names no column of
\* the dataset returns a text that begins with "Error:" and cites such a
\* column, and runs no analysis.
C3_AbsentColumnReported ==
    (lastCall.tool \in ColumnTools /\ lastCall.dfSeen # None) =>
        LET absent == Range(lastCall.args) \ Cols(heap[lastCall.dfSeen]) IN
        absent # {} =>
            /\ StartsWith(lastCall.text, <<"Error:">>)
            /\ \E c \in absent : c \in Range(lastCall.text)
            /\ ~lastCall.ran

C5_QueryGuard ==
    lastCall.tool = "execute_sql_query" =>
        LET query == lastCall.args[1]
            query_upper == Upper(Strip(query))
            found == {i \in 1..Len(forbidden) : Contains(query_upper, forbidden[i].chars)}
        IN
        /\ lastCall.sent # <<>> =>
              /\ lastCall.sent = <<query>>
              /\ USE_DATABASE
              /\ StartsWith(query_upper, SELECT)
              /\ found = {}
        /\ ~USE_DATABASE =>
              /\ lastCall.text = SqlLocalModeError
              /\ lastCall.sent = <<>>
        /\ (USE_DATABASE /\ StartsWith(query_upper, SELECT) /\ found # {}) =>
              /\ \E i \in found : lastCall.text = SqlForbiddenError(forbidden[i].word)
              /\ lastCall.sent = <<>>

\* C5, its case: in database mode a query that starts with SELECT and
\* contains two forbidden keywords was rejected with one of them named
C5_KeywordNamed ==
    /\ USE_DATABASE
    /\ lastCall.tool = "execute_sql_query"
    /\ lastCall.args = <<QMulti>>
    /\ lastCall.text = SqlForbiddenError("INSERT")

\* C7: sequential calls of get_dataframe() are idempotent.  In database mode
\* a call asks the database for the full table exactly when the cache is
\* empty, the cache is filled by the first query that is answered and never
\* again (so the table is fetched on the first call only when the database
\* answers it), a later call returns the cached table, and no call returns a
\* table passed to set_dataframe.  In local mode every call returns the table
\* most recently passed to set_dataframe without asking the database, and
\* before any set_dataframe call it returns None and the dataset tool returns
\* "Error: DataFrame not loaded".
C7_GetDataframeIdempotent ==
    /\ okFetches <= 1
    /\ (okFetches = 1) <=> (_cached_df # None)
    /\ (fetches = okFetches) => fetches <= 1
    /\ ~USE_DATABASE => fetches = 0
    /\ lastCall.tool \in DatasetTools =>
          IF USE_DATABASE
          THEN /\ lastCall.queried <=> (lastCall.cacheBefore = None)
               /\ lastCall.cacheBefore # None => lastCall.dfSeen = lastCall.cacheBefore
               /\ lastCall.dfSeen \in {None, DbId}
               /\ lastCall.dfSeen = None => lastCall.raised # ""
               /\ lastCall.dfSeen # None => lastCall.dfSeen = _cached_df
          ELSE /\ ~lastCall.queried
               /\ lastCall.dfSeen = lastSet
               /\ lastSet = None =>
                     /\ lastCall.text = <<"Error:", "DataFrame", "not", "loaded">>
                     /\ ~lastCall.ran

\* C7, its case: in database mode, after set_dataframe was given the schema
\* sample, a call found the cache filled and returned the cached table
C7_LaterCallReturnsCache ==
    /\ USE_DATABASE
    /\ lastCall.tool \in DatasetTools
    /\ lastSet = SampleId
    /\ lastCall.cacheBefore = DbId
    /\ lastCall.dfSeen = DbId
    /\ ~lastCall.queried

----------------------------------------------------------------------------
(* Properties of get_dataframe() under concurrent callers, under SpecConc *)

\* C6: in database mode, when several invocations call get_dataframe()
\* concurrently before the cache is filled, the full table is fetched at most
\* once and all callers receive the same table.
C6_FetchAtMostOnce ==
    /\ cfetches <= 1
    /\ \A t, u \in Threads :
          (tret[t] # NoneOpt /\ tret[u] # NoneOpt) => tret[t] = tret[u]

----------------------------------------------------------------------------
(* Properties of the schema summary, under SpecSchema *)

\* C8: the header of the summary returned for a table states that table's
\* true row count (its _total_rows, if it carries one) and its column count,
\* and the summary lists every column of that table exactly once.
C8_SummaryDescribesItsTable ==
    schemaCalls >= 1 =>
        LET df == lastSchema.df
            ret == lastSchema.ret
            true_rows == IF "_total_rows" \in DOMAIN df.attrs
                         THEN df.attrs["_total_rows"] ELSE Len(df.table.rows)
            Listed(c) == {i \in 1..(Len(ret) - 1) : ret[i] = "-" /\ ret[i + 1] = c}
        IN
        /\ Len(ret) >= 7
        /\ ret[2] = FormatThousands(true_rows)
        /\ ret[5] = ToString(Len(df.table.columns))
        /\ \A c \in Cols(df.table) : Cardinality(Listed(c)) = 1
        /\ Cardinality({i \in 1..Len(ret) : ret[i] = "-"}) = Len(df.table.columns)

----------------------------------------------------------------------------
(* Properties of the orchestration graph, under SpecAgent *)

\* where the loop is, read from the history
C10Positions ==
    /\ node \in {END, "agent", "should_continue", "tools", "raised"}
    /\ (node = END /\ messages # <<>>) =>
          /\ messages[Len(messages)].role = "ai"
          /\ messages[Len(messages)].tool_calls = <<>>
    /\ node \in {"should_continue", "tools"} => messages[Len(messages)].role = "ai"
    /\ node = "tools" => messages[Len(messages)].tool_calls # <<>>
    /\ node = "agent" => messages[Len(messages)].role \in {"user", "tool"}
    /\ \A p \in 1..Len(messages) :
          (p < Len(messages) /\ messages[p].role = "ai") =>
              LET calls == messages[p].tool_calls IN
              /\ p + Len(calls) <= Len(messages)
              /\ \A k \in 1..Len(calls) :
                    messages[p + k] = Message("tool", <<>>, calls[k])

\* the edges of the loop
C10Edges ==
    /\ (node = END /\ node' # END) =>
          node' = "agent" /\ messages' = Append(messages, Message("user", <<>>, 0))
    /\ node = "agent" =>
          \/ node' = "raised" /\ messages' = messages
          \/ /\ node' = "should_continue"
             /\ Len(messages') = Len(messages) + 1
             /\ messages'[Len(messages')].role = "ai"
    /\ node = "should_continue" =>
          /\ messages' = messages
          /\ node' = IF messages[Len(messages)].tool_calls # <<>> THEN "tools" ELSE END
    /\ node = "tools" =>
          /\ node' = "agent"
          /\ Len(messages') = Len(messages) + Len(messages[Len(messages)].tool_calls)
    /\ node = "raised" => node' = "raised"

\* C10: a turn starts with a model call; after each model call the tools run
\* iff the response carries a tool call, and otherwise the turn ends with that
\* response; after the tools step every requested call has its result in the
\* history and the model is called again; the turn ends only directly after a
\* response without tool calls, and it does end once the model returns one.
C10_ControlLoop ==
    /\ []C10Positions
    /\ [][C10Edges]_vars
    /\ ((node = "should_continue" /\ messages[Len(messages)].tool_calls = <<>>)
            ~> (node = END))

\* C10, its case: a turn ended after a tools step ran two requested calls
C10_TurnEndedAfterTools ==
    /\ node = END
    /\ Len(messages) >= 5
    /\ messages[Len(messages) - 1].role = "tool"
    /\ messages[Len(messages) - 2].role = "tool"
    /\ messages[Len(messages)].tool_calls = <<>>

----------------------------------------------------------------------------
(* Properties of the conversation threads, under SpecThreads *)

IsPrefix(s, t) == Len(s) <= Len(t) /\ \A i \in 1..Len(s) : s[i] = t[i]

\* what the last request did with thread ids
C11Requests ==
    /\ lastReq.op \in {"chat", "chat_stream"} =>
          /\ lastReq.used = IF lastReq.supplied \notin {None, ""}
                            THEN lastReq.supplied ELSE ToString(nextUuid - 1)
          /\ lastReq.supplied \in {None, ""} => lastReq.before = <<>>
          /\ ~lastReq.raised => lastReq.returned = lastReq.used
          /\ IsPrefix(lastReq.before, checkpoints[lastReq.used])
          /\ checkpoints[lastReq.used] # lastReq.before
    /\ lastReq.op = "clear" =>
          /\ lastReq.returned = ToString(nextUuid - 1)
          /\ lastReq.returned # lastReq.supplied
          /\ checkpoints[lastReq.returned] = <<>>
          /\ checkpoints[lastReq.supplied] = lastReq.before
    /\ lastReq.op = "cli_clear" =>
          /\ cliThread = lastReq.returned
          /\ cliThread = ToString(nextUuid - 1)
          /\ cliCheckpoints[cliThread] = <<>>
          /\ cliCheckpoints[lastReq.supplied] = lastReq.before
    /\ lastReq.op = "cli_question" =>
          /\ lastReq.used = cliThread
          /\ IsPrefix(lastReq.before, cliCheckpoints[cliThread])
    /\ \A n \in nextUuid..(MaxUuids + 1) :
          checkpoints[ToString(n)] = <<>> /\ cliCheckpoints[ToString(n)] = <<>>

\* what a step does to the stored histories
C11Steps ==
    \A id \in ThreadIds :
        /\ IsPrefix(checkpoints[id], checkpoints'[id])
        /\ IsPrefix(cliCheckpoints[id], cliCheckpoints'[id])
        /\ checkpoints'[id] # checkpoints[id] =>
              lastReq'.op \in {"chat", "chat_stream"} /\ lastReq'.used = id
        /\ cliCheckpoints'[id] # cliCheckpoints[id] =>
              lastReq'.op = "cli_question" /\ lastReq'.used = id

\* C11: a chat request runs its turn on the thread id it supplies (a
\* non-empty one) and on a new id otherwise, and returns the id it used;
\* clearing issues a new id and deletes nothing; a history only grows, and
\* only by a turn on its own thread; a new id has an empty history.
C11_ThreadsAppendOnly ==
    /\ []C11Requests
    /\ [][C11Steps]_vars

\* C11, its case: a thread that holds messages was cleared
C11_ClearedThreadWithMessages ==
    /\ lastReq.op = "clear"
    /\ lastReq.before # <<>>
    /\ checkpoints[lastReq.supplied] = lastReq.before

----------------------------------------------------------------------------
(* Properties of repeated invocations, under SpecRepeat *)

\* C12: two invocations of the same dataset tool with identical arguments,
\* on the same resolved dataset and with no exception raised in either,
\* return identical text, whatever invocations ran between them.
C12_SameArgumentsSameText ==
    ( /\ probe.tool \in DatasetTools
      /\ lastCall.tool = probe.tool
      /\ lastCall.args = probe.args
      /\ lastCall.dfSeen = probe.dfSeen
      /\ lastCall.dfSeen # None
      /\ lastCall.exc = "" /\ probe.exc = "" )
    => lastCall.text = probe.text

----------------------------------------------------------------------------
(* Properties of startup, under SpecStartup *)

\* C13: in local mode, when data/ holds no data file or more than one,
\* dataset resolution fails at startup: the graph is never built, no turn is
\* served and no tool is invoked.
C13_NoServiceWithoutOneFile ==
    (~USE_DATABASE /\ phase # "importing" /\ dataFiles # 1) =>
        /\ phase = "failed"
        /\ served = 0
        /\ invoked = 0

----------------------------------------------------------------------------
(* Properties of the tools as functions, under SpecFunctions *)

\* the index labels of the first n rows
FirstRows(n) == [i \in 1..n |-> ToString(i - 1)]

\* C14: for an accepted query whose result has M rows execute_sql_query
\* returns "Query returned no results" when M = 0, all M rows and nothing
\* else when 1 <= M <= 50, and the first 50 rows followed by
\* "... (showing 50 of M rows)" when M > 50; never more than 50 rows.
C14_SqlRowsRendered ==
    applied.fn = "execute_sql_query" =>
        LET M == applied.input.M
            text == applied.out.text
        IN
        /\ applied.out.sent = <<applied.input.query>>
        /\ M = 0 => text = <<"Query", "returned", "no", "results">>
        /\ (1 <= M /\ M <= 50) => text = <<"<columns>">> \o FirstRows(M)
        /\ M > 50 => text = <<"<columns>">> \o FirstRows(50) \o
                            <<"...", "(showing", "50", "of", ToString(M), "rows)">>
        /\ Len(text) <= 1 + 50 + 6

\* C14, its case: a result of more than 50 rows was rendered
C14_LongResultCut ==
    /\ applied.fn = "execute_sql_query"
    /\ applied.input.M = 52
    /\ Len(applied.out.text) = 57

\* C15: execute_pandas_code renders a DataFrame or Series result of more
\* than 20 rows as its first 20 rows followed by "...", and one of 20 rows or
\* fewer in full, without the marker.
C15_PandasResultRendered ==
    applied.fn = "execute_pandas_code" =>
        LET n == applied.input.n
            text == applied.out.text
            header == IF applied.input.frame THEN <<"<columns>">> ELSE <<>>
            title == IF applied.input.frame
                     THEN <<"DataFrame", "(", ToString(n), "rows):">>
                     ELSE <<"Series", "(", ToString(n), "items):">>
        IN
        /\ applied.out.raised = ""
        /\ n > 20 => text = title \o header \o FirstRows(20) \o <<"...">>
        /\ n <= 20 => text = header \o FirstRows(n)
        /\ n <= 20 => "..." \notin Range(text)

\* C15, its case: a Series of 21 items was rendered
C15_LongSeriesCut ==
    /\ applied.fn = "execute_pandas_code"
    /\ ~applied.input.frame
    /\ applied.input.n = 21
    /\ applied.out.text[Len(applied.out.text)] = "..."

\* the number a token stands for
Number(tok) == CHOOSE k \in 0..(MaxRows + MaxClusters) : ToString(k) = tok

\* the positions of a text where a cluster profile begins
ProfileStarts(text) ==
    {p \in 1..(Len(text) - 5) : text[p] = "###" /\ text[p + 1] = "Cluster"}

\* the first column of a list, in list order, that is absent or not numeric
FirstBadColumn(columns) ==
    LET bad == {k \in 1..Len(columns) :
                   columns[k] \notin {"total_scheduled_quantity", "design_capacity"}}
    IN IF bad = {} THEN None ELSE columns[CHOOSE k \in bad : \A l \in bad : k <= l]

\* the rows of the input without missing values in the requested columns
RowsWithoutMissing(rows, columns) ==
    Cardinality({i \in 1..Len(rows) : \A c \in Range(columns) : rows[i][c] # NullCell})

\* C16 (the column errors): when a requested column is absent or not numeric
\* cluster_analysis returns an "Error" text that names the first such column
\* in list order, and no clustering has run.
C16Errors ==
    LET in == applied.input
        text == applied.out.text
        bad == FirstBadColumn(in.columns)
    IN bad # None =>
          /\ text[1] = "Error:" /\ text[2] = "Column" /\ text[3] = bad
          /\ ~applied.out.ran

\* C16 (the profiles), as claimed: a request whose columns are all present
\* and numeric reports exactly n_clusters profiles labelled 0..n_clusters-1,
\* whose row counts sum to min(rows without missing values, sample_size).
C16Profiles ==
    LET in == applied.input
        text == applied.out.text
        starts == ProfileStarts(text)
        used == Min(RowsWithoutMissing(in.rows, in.columns), in.sample_size)
    IN /\ Cardinality(starts) = in.n_clusters
       /\ {text[p + 2] : p \in starts} = {ToString(i) : i \in 0..(in.n_clusters - 1)}
       /\ \A p, q \in starts : p < q => Number(text[p + 2]) < Number(text[q + 2])
       /\ SumOver([p \in starts |-> Number(text[p + 4])], starts) = used

Listed(text) == {p \in 1..Len(text) : text[p] = "<->"}

\* C17: find_correlations lists at most 15 pairs; each is a pair of two
\* distinct numeric columns, no unordered pair is listed twice, no listed pair
\* has a NaN correlation, the pairs are in non-increasing order of absolute
\* correlation, and with fewer than 2 usable numeric columns the result is
\* an error text, not a list ("Need at least 2 numeric columns" unless a
\* column was given twice, which raises in the library and is reported).
C17_CorrelationPairs ==
    applied.fn = "find_correlations" =>
        LET t == applied.input.table
            given == applied.input.columns
            text == applied.out.text
            usable == IF given = <<>> THEN NumericCols(t)
                      ELSE Range(given) \cap NumericCols(t)
            val(p) == Pearson(t.rows, text[p - 1], text[p + 1])
        IN
        /\ Cardinality(Listed(text)) <= 15
        /\ \A p \in Listed(text) :
              /\ text[p - 1] \in usable /\ text[p + 1] \in usable
              /\ text[p - 1] # text[p + 1]
              /\ val(p) # NullCell
              /\ text[p + 2] = Fmt4(val(p)[1])
        /\ \A p, q \in Listed(text) :
              p # q => {text[p - 1], text[p + 1]} # {text[q - 1], text[q + 1]}
        /\ \A p, q \in Listed(text) :
              p < q => Abs(val(p)[1]) >= Abs(val(q)[1])
        /\ Cardinality(usable) < 2 => (text[1] = "Error:" /\ Listed(text) = {})
        /\ (Cardinality(usable) < 2 /\ Cardinality(Range(given)) = Len(given)) =>
              text = <<"Error:", "Need", "at", "least", "2", "numeric", "columns">>

\* C17, its case: a table with more than 15 pairs of correlated columns, of
\* which 15 are listed, the last one weaker than the first and negative
C17_FifteenOfMoreListed ==
    /\ applied.fn = "find_correlations"
    /\ Cardinality(NumericCols(applied.input.table)) = 7
    /\ Cardinality(Listed(applied.out.text)) = 15
    /\ applied.out.text[6] = "1.0000"
    /\ applied.out.text[Len(applied.out.text)] = "-0.5000"

\* the non-null values of a column of cells
NonNull(cells) == {i \in 1..Len(cells) : cells[i] # NullCell}

\* the values strictly outside the bounds computed from the non-null values
StrictlyOutside(cells, method) ==
    LET vals == ColClean(ColumnTable(cells).rows, "total_scheduled_quantity") IN
    {i \in NonNull(cells) :
        IF method = "iqr"
        THEN /\ vals # <<>>
             /\ \/ 8 * cells[i][1] < 2 * Quantile4(vals, 1)[1]
                                     - 3 * (Quantile4(vals, 3)[1] - Quantile4(vals, 1)[1])
                \/ 8 * cells[i][1] > 2 * Quantile4(vals, 3)[1]
                                     + 3 * (Quantile4(vals, 3)[1] - Quantile4(vals, 1)[1])
        ELSE ZOutside(cells[i][1], vals)}

\* the report counts exactly the values strictly outside the bounds and
\* lists the first of them, at most 10
C18Report ==
    LET cells == applied.input.cells
        text == applied.out.text
        outside == StrictlyOutside(cells, applied.input.method)
        listed == Len(text) - 22
    IN /\ Len(text) >= 19
       /\ text[10] = "Outliers" /\ text[11] = "found:"
       /\ text[12] = ToString(Cardinality(outside))
       /\ IF outside = {} THEN Len(text) = 19
          ELSE /\ text[22] = "values:"
               /\ listed = Min(Cardinality(outside), 10)
               /\ \A k \in 1..listed :
                     \E i \in outside : text[22 + k] = ToString(cells[i][1]) \o ".0"

\* C18: detect_outliers computes its bounds from the non-null values,
\* counts as outliers exactly the non-null values strictly outside them,
\* reports 0 outliers when there is none and lists at most 10 outlier values.
C18_OutliersReported ==
    applied.fn = "detect_outliers" => C18Report

\* C18 for a column with at least one row (a null one included): the report is
\* as claimed.
C18_OutliersOfRows ==
    (applied.fn = "detect_outliers" /\ applied.input.cells # <<>>) => C18Report

\* C18, its cases: a value on the upper bound that is not counted, and more
\* than 10 outliers of which 10 are listed
C18_ValueOnBound ==
    /\ applied.fn = "detect_outliers"
    /\ applied.input.method = "iqr"
    /\ applied.input.cells = <<<<0>>, <<2>>, <<2>>, <<4>>, <<7>>>>
    /\ applied.out.text[12] = "0"
    /\ applied.out.text[15] = "7.00"
C18_TenOfElevenListed ==
    /\ applied.fn = "detect_outliers"
    /\ applied.out.text[12] = "11"
    /\ Len(applied.out.text) = 32
C18_ZScoreOutlier ==
    /\ applied.fn = "detect_outliers"
    /\ applied.input.method = "zscore"
    /\ applied.out.text[12] = "1"

\* the rows of the input in which a column holds a value
Holding(col, v) ==
    LET in == applied.input IN
    IF col = "total_scheduled_quantity"
    THEN (IF v = in.value THEN in.flagged ELSE 0)
         + (IF v = 8 THEN in.total - in.flagged ELSE 0)
    ELSE (IF v = in.capacity THEN in.flagged ELSE 0)
         + (IF v = 5 THEN in.total - in.flagged ELSE 0)

\* the placeholder section of a report: from its heading to the next one
PlaceholderSection(text) ==
    LET from == CHOOSE p \in 1..Len(text) : text[p] = "2."
        to == CHOOSE p \in 1..Len(text) : text[p] = "3."
    IN SubSeq(text, from, to)

\* C19: data_quality_report lists a numeric column and a sentinel
\* (999999999, 999999, -999, -1 or 0) in its placeholder section iff the
\* column holds the sentinel in more than 100 rows, records a moderate
\* concern for the pair iff those rows are also more than 1% of all rows, and
\* prints "No significant placeholder values detected" iff no pair is listed.
C19_PlaceholdersListed ==
    applied.fn = "data_quality_report" =>
        LET text == applied.out.text
            section == PlaceholderSection(text)
            pairs == {"total_scheduled_quantity", "design_capacity"}
                     \X {999999999, 999999, -999, -1, 0}
            listed(x) == Contains(section, <<"-", x[1], ToString(Holding(x[1], x[2])),
                                            "rows", "have", "value", ToString(x[2])>>)
            concern(x) == Contains(text, <<"-", x[1], "contains", "placeholder", "values",
                                           ToString(x[2])>>)
        IN
        /\ \A x \in pairs : listed(x) <=> Holding(x[1], x[2]) > 100
        /\ \A x \in pairs :
              concern(x) <=> (Holding(x[1], x[2]) > 100
                              /\ Holding(x[1], x[2]) * 100 > applied.input.total)
        /\ Cardinality({p \in 1..Len(section) : section[p] = "value"})
               = Cardinality({x \in pairs : listed(x)})
        /\ Contains(section, <<"No", "significant", "placeholder", "values", "detected">>)
               <=> \A x \in pairs : ~listed(x)

\* C19, its case: a sentinel in 101 of 10100 rows, which is listed without a
\* concern because it is exactly 1% of the rows
C19_ListedWithoutConcern ==
    /\ applied.fn = "data_quality_report"
    /\ applied.input.value = 999999999
    /\ applied.input.flagged = 101
    /\ applied.input.total = 10100
    /\ Contains(applied.out.text, <<"have", "value", "999999999">>)
    /\ ~Contains(applied.out.text, <<"contains", "placeholder">>)

\* the five pipelines with the largest quantities among those of a set, each
\* counted once (twice in the baseline, which changes no rank)
Largest5(names) ==
    {a \in names : Cardinality({b \in names : PipelineQuantity[b] > PipelineQuantity[a]}) < 5}

\* the baseline ranks a pipeline by its rows of both halves
BaselineQuantity(name) ==
    PipelineQuantity[name] * ((IF name \in applied.input.early THEN 1 ELSE 0)
                              + (IF name \in applied.input.late THEN 1 ELSE 0))
BaselineLargest5 ==
    LET names == applied.input.early \cup applied.input.late IN
    {a \in names : Cardinality({b \in names : BaselineQuantity(b) > BaselineQuantity(a)}) < 5}

\* the rows on or before the median day, and those after it: day 1 is the
\* median when most rows are early, day 3 when most are late, day 2 otherwise
EarlyHalf ==
    IF Cardinality(applied.input.early) >= Cardinality(applied.input.late)
    THEN applied.input.early
    ELSE applied.input.early \cup applied.input.late
LateHalf ==
    IF Cardinality(applied.input.early) >= Cardinality(applied.input.late)
    THEN applied.input.late
    ELSE {}

\* the temporal check reports the overlaps of the two halves and calls the
\* finding temporally robust only if both are at least 4
C20Halves ==
    LET text == applied.out.text
        at == CHOOSE p \in 1..Len(text) : text[p] = "Temporal"
        early_overlap == Cardinality(BaselineLargest5 \cap Largest5(EarlyHalf))
        late_overlap == Cardinality(BaselineLargest5 \cap Largest5(LateHalf))
    IN /\ text[at + 4] = ToString(early_overlap)
       /\ text[at + 7] = ToString(late_overlap)
       /\ (text[at + 8] = "Temporally") <=> (early_overlap >= 4 /\ late_overlap >= 4)

\* the checks the summary counts as passed and as run
SummaryOf20(text) ==
    LET at == CHOOSE p \in 1..Len(text) : text[p] = "Summary:"
    IN [passed |-> text[at + 1], total |-> text[at + 3]]
OtherChecks(text) ==
    [passed |-> (IF Contains(text, <<"Sample", "robust">>) THEN 1 ELSE 0)
                + (IF Contains(text, <<"Outlier", "robust">>) THEN 1 ELSE 0),
     total |-> (IF Contains(text, <<"Sample", "Robustness">>) THEN 1 ELSE 0)
               + (IF Contains(text, <<"Outlier", "Robustness">>) THEN 1 ELSE 0)]

\* C20: the temporal check of robustness_check splits the rows at the median
\* gas_day (early: <=, late: >), passes only if both halves share at least 4
\* of their top 5 with the baseline top 5, and counts as one check in the
\* totals of the summary, passed iff both halves pass.
C20_TemporalCountsOnce ==
    (/\ applied.fn = "robustness_check"
     /\ applied.input.test_type \in {"temporal", "all"}
     /\ applied.input.dated
     /\ applied.out.text[1] # "Error:") =>
        LET text == applied.out.text
            at == CHOOSE p \in 1..Len(text) : text[p] = "Temporal"
        IN /\ C20Halves
           /\ SummaryOf20(text).total = ToString(1 + OtherChecks(text).total)
           /\ SummaryOf20(text).passed =
                  ToString((IF text[at + 8] = "Temporally" THEN 1 ELSE 0)
                           + OtherChecks(text).passed)

\* C20, what the summary does count: the split and the verdict of the
\* temporal check are as claimed, and each half is a check of its own in the
\* totals, passed when its overlap is at least 4.
C20_TemporalCountsTwice ==
    (/\ applied.fn = "robustness_check"
     /\ applied.input.test_type \in {"temporal", "all"}
     /\ applied.input.dated
     /\ applied.out.text[1] # "Error:") =>
        LET text == applied.out.text
            at == CHOOSE p \in 1..Len(text) : text[p] = "Temporal"
        IN /\ C20Halves
           /\ SummaryOf20(text).total = ToString(2 + OtherChecks(text).total)
           /\ SummaryOf20(text).passed =
                  ToString((IF text[at + 4] \in {"4", "5"} THEN 1 ELSE 0)
                           + (IF text[at + 7] \in {"4", "5"} THEN 1 ELSE 0)
                           + OtherChecks(text).passed)

\* C20, its case: the early half passes and the late one does not, and the
\* summary counts one check of two as passed
C20_OneHalfPasses ==
    /\ applied.fn = "robustness_check"
    /\ applied.input.test_type = "temporal"
    /\ applied.input.dated
    /\ Contains(applied.out.text, <<"Early", "period:", "4", "Late", "period:", "1",
                                    "Rankings", "shift", "over", "time",
                                    "Summary:", "1", "/", "2",
                                    "Finding", "is", "moderately", "robust">>)

\* the verdict lines of a report
VerdictLines(text) ==
    {p \in 1..(Len(text) - 1) : text[p] = "Finding" /\ text[p + 1] = "is"}

\* the checks a report shows as run: a temporal section puts its two periods
\* to the test, the sample and the outlier section one finding each
ChecksRun(text) ==
    (IF Contains(text, <<"Temporal", "Robustness">>) THEN 2 ELSE 0)
    + OtherChecks(text).total

C21_Fragile ==
    /\ applied.fn = "robustness_check"
    /\ Contains(applied.out.text, <<"Summary:", "1", "/", "4", "Finding", "is", "fragile">>)
C21_AllPassed ==
    /\ applied.fn = "robustness_check"
    /\ Contains(applied.out.text, <<"Summary:", "4", "/", "4", "Finding", "is", "robust">>)

\* C29: when robustness_check runs no check at all (test_type is none of
\* temporal, sample, outliers, all; or test_type is temporal and the dataset
\* has no gas_day column), it reports "0/0 robustness checks passed" together
\* with the verdict "Finding is robust".
C29_NoCheckIsRobust ==
    (/\ applied.fn = "robustness_check"
     /\ \/ applied.input.test_type \notin {"temporal", "sample", "outliers", "all"}
        \/ applied.input.test_type = "temporal" /\ ~applied.input.dated) =>
        LET text == applied.out.text
            at == CHOOSE p \in 1..Len(text) : text[p] = "Summary:"
        IN /\ text[1] # "Error:"
           /\ ChecksRun(text) = 0
           /\ ~Contains(text, <<"###">>)
           /\ SubSeq(text, at, Len(text)) =
                 <<"Summary:", "0", "/", "0", "Finding", "is", "robust">>

\* C29, its cases: a test type that names no check, and the temporal check
\* asked of a table without gas_day, both on a table with rows
C29_NoCheckRun ==
    /\ applied.fn = "robustness_check"
    /\ applied.input.test_type = "none"
    /\ applied.input.early = {"A", "B"}
    /\ Contains(applied.out.text, <<"Summary:", "0", "/", "0", "Finding", "is", "robust">>)
C29_TemporalWithoutDates ==
    /\ applied.fn = "robustness_check"
    /\ applied.input.test_type = "temporal"
    /\ ~applied.input.dated
    /\ applied.input.early = {"A", "B"}
    /\ Contains(applied.out.text, <<"Summary:", "0", "/", "0", "Finding", "is", "robust">>)

\* the table a call of check_confounders was given, its strata (the regions,
\* or the quartile bins of the capacity) and the rows of a stratum
C22Table ==
    StratumTable(applied.input.x, applied.input.y,
                 IF applied.input.confounder = "region" THEN 2 ELSE 4)
C22Strata == Range(Unique(StratumLabels(C22Table, applied.input.confounder)))
C22Rows(label) ==
    LET labels == StratumLabels(C22Table, applied.input.confounder)
    IN Take(C22Table.rows, {i \in 1..Len(labels) : labels[i] = <<label>>}, 1)
C22Corr(label) == Pearson(C22Rows(label), "total_scheduled_quantity", "design_capacity")

\* the strata with at least minimum rows and a correlation that is a number
C22Qualifying(minimum) ==
    {label \in C22Strata : Len(C22Rows(label)) >= minimum /\ C22Corr(label) # NullCell}

\* the report lists the correlation of exactly the strata of at least minimum
\* rows, and calls the correlation varying iff those correlations differ by
\* more than 0.2, stable iff there are any and they do not
C22Report(minimum) ==
    LET text == applied.out.text
        corrs == {C22Corr(label)[1] : label \in C22Qualifying(minimum)}
        varies == \E v \in corrs, w \in corrs : v - w > RangeLimit
    IN /\ \A label \in C22Strata :
             IF label \in C22Qualifying(minimum)
             THEN Contains(text, <<"-", label, "r", "=", Fmt4(C22Corr(label)[1]),
                                   "n", "=", ToString(Len(C22Rows(label)))>>)
             ELSE ~Contains(text, <<"-", label, "r", "=">>)
       /\ Contains(text, <<"Correlation", "varies", "by">>) <=> varies
       /\ Contains(text, <<"Correlation", "stable", "across">>) <=> (corrs # {} /\ ~varies)

\* C22: check_confounders computes a per-stratum correlation for every
\* stratum of a confounder that has at least 30 rows (and for no smaller
\* stratum), and flags the confounder as distorting the relationship iff the
\* difference between the largest and the smallest qualifying stratum
\* correlation exceeds 0.2.
C22_StrataFrom30 ==
    (applied.fn = "check_confounders" /\ applied.out.text[1] # "Error:") =>
        C22Report(MinStratum)

\* C22, what the report does list: the strata of more than 30 rows
C22_StrataAbove30 ==
    (applied.fn = "check_confounders" /\ applied.out.text[1] # "Error:") =>
        C22Report(MinStratum + 1)

\* C22, its case: a region of exactly 30 rows whose correlation is the
\* reverse of the other region's is left out, and the correlation is called
\* stable
C22_ThirtyRowsLeftOut ==
    /\ applied.fn = "check_confounders"
    /\ applied.input = [x |-> [n |-> MinStratum, kind |-> "up"],
                        y |-> [n |-> MinStratum + 1, kind |-> "down"],
                        confounder |-> "region"]
    /\ ~Contains(applied.out.text, <<"-", "X", "r", "=">>)
    /\ Contains(applied.out.text, <<"-", "Y", "r", "=", "-1.0000", "n", "=", "31",
                                    "Correlation", "stable", "across", "region">>)

\* C22, a numeric confounder with coinciding quartiles: no analysis
C22_QuartilesCoincide ==
    /\ applied.fn = "check_confounders"
    /\ applied.input.confounder = "operating_capacity"
    /\ applied.input.x.n = 0
    /\ applied.input.y.n = MinStratum + 1
    /\ applied.out.text = <<"Error:", "ValueError">>

\* twice the value of a pipeline in the raw table of a comparison, and in
\* the cleaned one: the row with the issue counts in the raw sum and mean
\* unless it has no quantity, and is gone from the cleaned table
C23Raw2(name) ==
    LET q == PipelineQuantity[name]
        second == name \in applied.input.flagged /\ applied.input.issue # "null"
        extra == IssueCell(applied.input.issue)[1]
    IN IF ~second THEN 2 * q
       ELSE IF applied.input.agg_func = "mean" THEN q + extra
       ELSE 2 * (q + extra)
C23Clean2(name) == 2 * PipelineQuantity[name]

\* the five pipelines of the largest values, largest first
C23RawTop5 ==
    LET names == applied.input.present
        rank(a) == Cardinality({b \in names : C23Raw2(b) > C23Raw2(a)})
    IN [k \in 1..Min(5, Cardinality(names)) |-> CHOOSE a \in names : rank(a) = k - 1]
C23CleanTop5 ==
    LET names == applied.input.present
        rank(a) == Cardinality({b \in names : C23Clean2(b) > C23Clean2(a)})
    IN [k \in 1..Min(5, Cardinality(names)) |-> CHOOSE a \in names : rank(a) = k - 1]

\* the report names exactly the pipelines of the cleaned top 5 that are not
\* in the raw top 5, after the flag if there is one to name, or it names none
C23Named(flagged) ==
    LET text == applied.out.text
        new == Range(C23CleanTop5) \ Range(C23RawTop5)
    IN IF flagged /\ new # {}
       THEN \E at \in 5..(Len(text) - 3) :
               /\ SubSeq(text, at - 4, at + 3) =
                     <<"Rankings", "changed", "after", "cleaning!", "New", "in", "top", "5:">>
               /\ Len(text) = at + 3 + Cardinality(new)
               /\ {text[k] : k \in (at + 4)..Len(text)} = new
       ELSE ~Contains(text, <<"New", "in", "top", "5:">>)

\* C23, as stated: in per-group mode compare_with_without_issues prints the
\* "Rankings changed" flag iff the set of top-5 groups of the cleaned data
\* differs from the set of top-5 groups of the raw data (a mere reordering of
\* the same five groups is not flagged), and then names exactly the groups
\* that are in the cleaned top 5 but not in the raw top 5.
C23_FlaggedWhenSetChanges ==
    (/\ applied.fn = "compare_with_without_issues"
     /\ applied.input.group_column = "pipeline_name"
     /\ applied.out.text[1] # "Error:") =>
        LET flagged == Range(C23RawTop5) # Range(C23CleanTop5)
        IN /\ Contains(applied.out.text, <<"Rankings", "changed">>) <=> flagged
           /\ C23Named(flagged)

\* C23, amended: the flag is printed iff the top-5 list of the cleaned data
\* differs from that of the raw data in its groups or in their order; the
\* groups of the cleaned top 5 that are not in the raw top 5 are then named,
\* if there is any.
C23_FlaggedWhenListChanges ==
    (/\ applied.fn = "compare_with_without_issues"
     /\ applied.input.group_column = "pipeline_name"
     /\ applied.out.text[1] # "Error:") =>
        LET flagged == C23RawTop5 # C23CleanTop5
        IN /\ Contains(applied.out.text, <<"Rankings", "changed">>) <=> flagged
           /\ C23Named(flagged)

\* C23, its case: the placeholder puts B before A, the same five pipelines
\* are the top 5 of both tables, and the flag is printed without a name
C23_ReorderFlagged ==
    /\ applied.fn = "compare_with_without_issues"
    /\ applied.input.group_column = "pipeline_name"
    /\ applied.input.present = {"A", "B", "C", "D", "E"}
    /\ applied.input.flagged = {"B"}
    /\ applied.input.issue = "placeholder"
    /\ Contains(applied.out.text, <<"Raw", "Data:", "B">>)
    /\ Contains(applied.out.text, <<"Clean", "Data:", "A">>)
    /\ SubSeq(applied.out.text, Len(applied.out.text) - 5, Len(applied.out.text)) =
          <<"E", "3.00", "Rankings", "changed", "after", "cleaning!">>

\* C23, a new entrant: the placeholder keeps E out of the raw top 5
C23_NewEntrantNamed ==
    /\ applied.fn = "compare_with_without_issues"
    /\ applied.input.present = Range(PipelineNames)
    /\ applied.input.flagged = {"F"}
    /\ Contains(applied.out.text, <<"Rankings", "changed", "after", "cleaning!",
                                    "New", "in", "top", "5:", "E">>)

\* the lines of the numbered sections of a report that list a finding: the
\* items before the impact assessment, but for the line that no placeholder
\* was detected and the line of zero exact duplicates
FindingLines(text) ==
    LET impact == CHOOSE p \in 1..Len(text) : text[p] = "Impact" /\ text[p + 1] = "Assessment"
    IN {p \in 1..impact :
           /\ text[p] = "-"
           /\ text[p + 1] # "No"
           /\ SubSeq(text, p + 1, p + 3) # <<"Exact", "duplicates:", "0">>}

\* the closing of a report: the all-clear or the recommendations
AllClear(text) == Contains(text, <<"No", "major", "data", "quality", "issues", "detected">>)
Recommended(text) == Contains(text, <<"###", "Recommendations">>)
Recorded(text) ==
    Contains(text, <<"###", "High-Impact", "Issues", "-">>)
    \/ Contains(text, <<"###", "Moderate", "Concerns", "-">>)

C24_ConcernRecommended ==
    /\ applied.fn = "data_quality_report"
    /\ "findings" \in DOMAIN applied.input
    /\ applied.input.findings = {"negative_many"}
    /\ Contains(applied.out.text, <<"###", "Moderate", "Concerns", "-",
                                    "total_scheduled_quantity", "has", "negative", "values",
                                    "###", "Recommendations">>)

\* the rows of a series that count: a date that parses, and a value
C25Rows ==
    SelectSeq(applied.input.rows,
              LAMBDA r : r.gas_day[1] \in Range(DateStrings)
                         /\ r.total_scheduled_quantity # NullCell)

\* the periods with a defined mean, by the days of the frequency (M is the
\* month), and sixty times the mean of one
C25Width ==
    IF applied.input.freq = "D" THEN 1 ELSE IF applied.input.freq = "W" THEN 7 ELSE 31
C25Period(r) == (DateDays[r.gas_day[1]] - 1) \div C25Width
C25Periods == {C25Period(C25Rows[i]) : i \in 1..Len(C25Rows)}
C25Mean60(p) ==
    LET idx == {i \in 1..Len(C25Rows) : C25Period(C25Rows[i]) = p}
    IN (60 * SumOver([i \in idx |-> C25Rows[i].total_scheduled_quantity[1]], idx))
       \div Cardinality(idx)

\* the sign of the slope of the line fitted to the means, taken at 0, 1, ..:
\* that of the sum, over the pairs of periods, of the difference of the means
\* times the distance of the two in the sequence
C25Slope ==
    LET rank(p) == Cardinality({q \in C25Periods : q < p})
        pairs == {pq \in C25Periods \X C25Periods : pq[1] < pq[2]}
        weight == [pq \in pairs |->
                      (rank(pq[2]) - rank(pq[1])) * (C25Mean60(pq[2]) - C25Mean60(pq[1]))]
        up == {pq \in pairs : weight[pq] > 0}
        down == {pq \in pairs : weight[pq] < 0}
        total(S) == IF S = {} THEN 0
                    ELSE LET seq == CHOOSE f \in [1..Cardinality(S) -> S] :
                                        \A i, j \in 1..Cardinality(S) : i # j => f[i] # f[j]
                         IN SumOver([i \in 1..Cardinality(S) |-> Abs(weight[seq[i]])],
                                    1..Cardinality(S))
    IN total(up) - total(down)

\* the trend line and the change of a report
C25Trend(text) ==
    LET at == CHOOSE p \in 1..Len(text) : text[p] = "Trend:"
        to == CHOOSE p \in 1..Len(text) : text[p] = "Overall"
    IN [label |-> SubSeq(text, at + 1, to - 1), change |-> text[to + 2]]

\* the trend of two or more periods: a report whose label is increasing for
\* a rising line and decreasing for any other
C25Fitted ==
    /\ applied.out.text[1] # "Error:"
    /\ C25Trend(applied.out.text).label =
          (IF C25Slope > 0 THEN <<"increasing">> ELSE <<"decreasing">>)

\* the trend of at most one period, as claimed
C25Insufficient ==
    /\ applied.out.text[1] # "Error:"
    /\ C25Trend(applied.out.text) = [label |-> <<"insufficient", "data">>, change |-> "0.00"]

\* C25: analyze_time_series reports the trend label "insufficient data" with
\* 0% overall change whenever the resampled series has at most one period
\* with a defined mean (including the case of zero periods, e.g. when every
\* date is unparseable); otherwise it labels the trend increasing or
\* decreasing from the sign of the fitted degree-1 slope over the per-period
\* means.
C25_InsufficientData ==
    applied.fn = "analyze_time_series" =>
        IF Cardinality(C25Periods) <= 1 THEN C25Insufficient ELSE C25Fitted

\* C25, what the tool returns: an error without a period, the label of
\* insufficient data for one period, a fitted trend for more
C25_ErrorWithoutPeriod ==
    applied.fn = "analyze_time_series" =>
        IF Cardinality(C25Periods) = 0 THEN applied.out.text = <<"Error:", "IndexError">>
        ELSE IF Cardinality(C25Periods) = 1 THEN C25Insufficient
        ELSE C25Fitted

\* C25, its case: the only date of the table is no date, and the tool
\* returns an error
C25_UnparseableDates ==
    /\ applied.fn = "analyze_time_series"
    /\ Len(applied.input.rows) = 1
    /\ applied.input.rows[1].gas_day = <<"n/a">>
    /\ applied.input.rows[1].total_scheduled_quantity = <<3>>
    /\ applied.out.text[1] = "Error:"

\* C25, three periods of falling and of rising means
C25_ThreePeriodsDecreasing ==
    /\ applied.fn = "analyze_time_series"
    /\ applied.input.freq = "D"
    /\ Cardinality(C25Periods) = 3
    /\ C25Trend(applied.out.text).label = <<"decreasing">>
C25_ThreePeriodsIncreasing ==
    /\ applied.fn = "analyze_time_series"
    /\ applied.input.freq = "D"
    /\ Cardinality(C25Periods) = 3
    /\ C25Trend(applied.out.text).label = <<"increasing">>

----------------------------------------------------------------------------
(* Properties of the database operations, under SpecStore *)

\* the slices of table follow one another from row 0 to row total_rows, none
\* of them empty and none longer than size
Consecutive(table, size, total_rows) ==
    /\ (Len(table) = 0) = (total_rows = 0)
    /\ Len(table) > 0 => (table[1].lo = 0 /\ table[Len(table)].hi = total_rows)
    /\ \A j \in 1..Len(table) : table[j].lo < table[j].hi /\ table[j].hi - table[j].lo <= size
    /\ \A j \in 1..(Len(table) - 1) : table[j + 1].lo = table[j].hi

\* the longest slice a finished load may have inserted at once
SliceLimit(o) == IF o.use_copy THEN o.chunk_size ELSE batch_size

\* C26: load_parquet_to_db inserts only after it has counted zero rows, a
\* call made on a table that holds rows leaves the table as it was, and a call
\* that returns after loading leaves in the table the rows of the file, each
\* once, in consecutive slices of at most chunk_size rows on the COPY path
\* and 50000 rows on the fallback path, as many rows as the file has
C26_LoadsOnceInChunks ==
    /\ (db.op = LOAD /\ db.pc # "counting") => (db.existing = 0 /\ db.before = <<>>)
    /\ (lastOp.op = LOAD /\ RowsOf(lastOp.before) > 0) =>
           (lastOp.outcome \in {"skipped", "raised"} /\ lastOp.after = lastOp.before)
    /\ (lastOp.op = LOAD /\ lastOp.outcome = "skipped") => RowsOf(lastOp.before) > 0
    /\ (lastOp.op = LOAD /\ lastOp.outcome = "loaded") =>
           /\ lastOp.before = <<>>
           /\ Consecutive(lastOp.after, SliceLimit(lastOp), lastOp.total_rows)
           /\ RowsOf(lastOp.after) = lastOp.total_rows

\* a file of 100001 rows has been loaded by COPY in five chunks of at most
\* 25000 rows
C26_LoadedInFiveChunks ==
    /\ lastOp.op = LOAD
    /\ lastOp.outcome = "loaded"
    /\ lastOp.use_copy
    /\ Len(lastOp.after) = 5
    /\ pipeline_data = lastOp.after

\* a file of 100001 rows has been loaded by the fallback path in three batches
C26_LoadedInThreeBatches ==
    /\ lastOp.op = LOAD
    /\ lastOp.outcome = "loaded"
    /\ ~lastOp.use_copy
    /\ Len(lastOp.after) = 3

\* a call made on a loaded table has returned without inserting
C26_SkippedOnLoadedTable ==
    /\ lastOp.op = LOAD
    /\ lastOp.outcome = "skipped"
    /\ lastOp.existing = 2 * batch_size + 1

\* C27 as stated: between two database operations no connection is checked
\* out of the pool, and at no time are more than pool_size + max_overflow
\* connections checked out
C27_ConnectionsReturned ==
    /\ db.op = "" => live = 0
    /\ live <= pool_size + max_overflow

\* load_parquet_to_db has raised out of raw_conn.cursor() and the connection
\* it had checked out is still out
C27_LeftCheckedOut ==
    /\ db.op = ""
    /\ lastOp.op = LOAD
    /\ lastOp.at = "cursor"
    /\ live > 0

\* the pool is exhausted by connections that were never closed, and an
\* operation has been refused a connection
C27_PoolExhausted ==
    /\ leaked = pool_size + max_overflow
    /\ lastOp.outcome = "raised"
    /\ lastOp.at = "connect"

\* a COPY load that raised out of copy_expert or commit at chunk k has left
\* the k - 1 chunks before it in the table
ChunksBeforeStay ==
    (lastOp.op = LOAD /\ lastOp.at \in {"copy_expert", "commit"}) =>
        /\ lastOp.outcome = "raised"
        /\ lastOp.k >= 1
        /\ Len(lastOp.after) = lastOp.k - 1
        /\ Consecutive(lastOp.after, lastOp.chunk_size, (lastOp.k - 1) * lastOp.chunk_size)

\* C28 as stated: a failed chunk k is rolled back alone and the error is
\* raised, and every call of load_parquet_to_db made after a chunk was rolled
\* back ends at the existence check
C28_LaterLoadSkips ==
    /\ ChunksBeforeStay
    /\ (db.op = LOAD /\ db.earlier >= 1) => db.pc = "counting"

\* C28 amended: a failed chunk k is rolled back alone and the error is
\* raised; when k is 2 or more the table keeps the k - 1 chunks before it
\* from then on, and every call of load_parquet_to_db made after that ends at
\* the existence check, skipping the load unless the check itself raises
C28_LaterLoadSkipsAfterSecondChunk ==
    /\ ChunksBeforeStay
    /\ rolled_back >= 2 => (Len(pipeline_data) = rolled_back - 1 /\ RowsOf(pipeline_data) > 0)
    /\ (db.op = LOAD /\ db.earlier >= 2) => db.pc = "counting"
    /\ (lastOp.op = LOAD /\ lastOp.earlier >= 2) =>
           (lastOp.outcome \in {"skipped", "raised"} /\ lastOp.after = lastOp.before)

\* the third chunk of a file was rolled back, and a later call has skipped
\* the load over the two chunks that stay
C28_SkippedOverPartialLoad ==
    /\ lastOp.op = LOAD
    /\ lastOp.outcome = "skipped"
    /\ lastOp.earlier = 3
    /\ Len(pipeline_data) = 2
    /\ lastOp.existing = 2 * (batch_size \div 2)

\* the first chunk of a file was rolled back, and a later call loads the
\* file again
C28_ReloadAfterFirstChunk ==
    /\ db.op = LOAD
    /\ db.earlier = 1
    /\ db.pc = "copying"

----------------------------------------------------------------------------
(* Properties of the keyword scan, under SpecGuard *)

\* the forbidden words the items of a query were written with
WrittenWords(items) == UNION {items[j].words : j \in 1..Len(items)}

\* the place of a word in forbidden
PlaceOf(word) == CHOOSE i \in 1..Len(forbidden) : forbidden[i].word = word

\* of a set of forbidden words, the one that stands first in forbidden
FirstListed(words) == CHOOSE w \in words : \A v \in words : PlaceOf(w) <= PlaceOf(v)

\* C30: in database mode a SELECT query written with a forbidden word
\* anywhere, in any case, inside an identifier or a string literal, is not
\* sent to the database and returns "Error: <word> operations are not
\* allowed", where <word> is the first word of INSERT, UPDATE, DELETE, DROP,
\* ALTER, CREATE, TRUNCATE that occurs in it, wherever it stands in the text;
\* so a query that names created_dt is always rejected, with CREATE unless a
\* word listed before CREATE occurs as well; a query written with none of the
\* words is sent
C30_SubstringRejected ==
    (applied.fn = "execute_sql_query" /\ applied.input.M = 1 /\ "items" \in DOMAIN applied.input) =>
        LET words == WrittenWords(applied.input.items)
            named == \E j \in 1..Len(applied.input.items) : applied.input.items[j].name = "created_dt"
        IN /\ words # {} =>
                 /\ applied.out.text = <<"Error:", FirstListed(words), "operations", "are", "not", "allowed">>
                 /\ applied.out.sent = <<>>
           /\ named => (applied.out.sent = <<>> /\ applied.out.text[1] = "Error:")
           /\ (named /\ words \subseteq {"CREATE", "TRUNCATE"}) =>
                 applied.out.text = <<"Error:", "CREATE", "operations", "are", "not", "allowed">>
           /\ words = {} => applied.out.sent = <<applied.input.query>>

\* a query that selects created_dt and the literal 'insert', in this order,
\* was rejected with INSERT named
C30_LaterWordNamed ==
    /\ applied.fn = "execute_sql_query"
    /\ "items" \in DOMAIN applied.input
    /\ Len(applied.input.items) = 2
    /\ applied.input.items[1].name = "created_dt"
    /\ applied.input.items[2].name = "insert"
    /\ applied.out.text = SqlForbiddenError("INSERT")

\* a query that selects created_dt alone was rejected with CREATE named
C30_CreatedDtRejected ==
    /\ applied.fn = "execute_sql_query"
    /\ "items" \in DOMAIN applied.input
    /\ Len(applied.input.items) = 1
    /\ applied.input.items[1].name = "created_dt"
    /\ applied.out.text = SqlForbiddenError("CREATE")
    /\ applied.out.sent = <<>>

====
